---- MODULE Spec2Model ----
(***************************************************************************)
(* A state-machine model of the AVBD 2D physics solver (web-avbd2d):        *)
(* Solver, Force, Joint, Manifold, RigidBox and the FEM energies.           *)
(*                                                                          *)
(* Number system.  The program computes in IEEE doubles.  The model         *)
(* computes on a lattice: a number is an integer of magnitude at most       *)
(* MaxNum, or one of the three special values Inf, NInf (minus infinity)    *)
(* and NaN.  Every arithmetic operator below follows the IEEE rules for     *)
(* the special values (Inf - Inf = NaN, 0 * Inf = NaN, x / 0 = +-Inf,       *)
(* every comparison with NaN is false) and rounds a quotient to the         *)
(* nearest lattice point.  Lengths are in lattice units, velocities in      *)
(* units per second, angles in quarter turns (so that Math.cos and          *)
(* Math.sin are exact at every representable angle), and the dimensionless  *)
(* parameters alpha, gamma and the friction coefficients in hundredths.     *)
(* The gravity vector is kept in thousandths of a unit per second squared.  *)
(***************************************************************************)
EXTENDS Integers, Sequences, FiniteSets, TLC

VARIABLES
    rigidBox,   \* heap of RigidBox objects
    force,      \* heap of Force objects (Joint, Manifold)
    energy,     \* heap of EnergyFEM objects (StVKEnergy)
    solver,     \* the Solver's own fields
    trace,      \* history variable: what the last call of step did
    lastOp,     \* history variable: the operation that produced this state
    nSteps,     \* history variable: calls of Solver.step so far
    nOps,       \* history variable: other operations so far
    loop,       \* the main loop of GameManager: its fields and its closure
    probe       \* the arguments and the result of a projection of eigenvalues

vars == <<rigidBox, force, energy, solver, trace, lastOp, nSteps, nOps, loop, probe>>

RECURSIVE Call(_, _)

\* ------------------------------------------------------------------------
\* Bounds of the exploration
\* ------------------------------------------------------------------------
\* number of Solver.step calls explored on one path
MaxSteps == 2
\* number of other operations (setters, add, remove, Clear) on one path
MaxOps == 2

\* ------------------------------------------------------------------------
\* The number lattice
\* ------------------------------------------------------------------------
\* largest finite magnitude of the lattice
MaxNum == 1000000000
\* Infinity
Inf == 2 * MaxNum
\* -Infinity
NInf == -Inf
\* NaN
NaN == Inf + 100

\* Number.isNaN
isNaN(x) == x = NaN

IsInf(x) == x = Inf \/ x = NInf

\* Math.sign restricted to non-NaN arguments
Sgn(x) == IF x > 0 THEN 1 ELSE IF x < 0 THEN -1 ELSE 0

\* overflow to +-Infinity
Sat(x) == IF x > MaxNum THEN Inf ELSE IF x < -MaxNum THEN NInf ELSE x

\* Math.abs
Abs(x) == IF isNaN(x) THEN NaN ELSE IF x < 0 THEN -x ELSE x

\* unary minus
Neg(x) == IF isNaN(x) THEN NaN ELSE -x

\* a + b
Add(a, b) ==
    IF isNaN(a) \/ isNaN(b) THEN NaN
    ELSE IF IsInf(a) THEN (IF IsInf(b) /\ a # b THEN NaN ELSE a)
    ELSE IF IsInf(b) THEN b
    ELSE Sat(a + b)

\* a - b
Sub(a, b) == Add(a, Neg(b))

\* a * b
Mul(a, b) ==
    IF isNaN(a) \/ isNaN(b) THEN NaN
    ELSE IF a = 0 \/ b = 0 THEN (IF IsInf(a) \/ IsInf(b) THEN NaN ELSE 0)
    ELSE IF IsInf(a) \/ IsInf(b) THEN Sgn(a) * Sgn(b) * Inf
    ELSE IF Abs(a) > MaxNum \div Abs(b) THEN Sgn(a) * Sgn(b) * Inf
    ELSE a * b

\* quotient of two positive finite numbers, rounded to the nearest integer
RoundDiv(p, q) ==
    LET d == p \div q
        r == p % q
    IN  IF r >= q - r THEN d + 1 ELSE d

\* a / b
Div(a, b) ==
    IF isNaN(a) \/ isNaN(b) THEN NaN
    ELSE IF b = 0 THEN (IF a = 0 THEN NaN ELSE Sgn(a) * Inf)
    ELSE IF IsInf(a) THEN (IF IsInf(b) THEN NaN ELSE Sgn(a) * Sgn(b) * Inf)
    ELSE IF IsInf(b) THEN 0
    ELSE IF a = 0 THEN 0
    ELSE Sgn(a) * Sgn(b) * RoundDiv(Abs(a), Abs(b))

\* a * p / q for small positive integers p <= q, without intermediate overflow
Scale(a, p, q) ==
    IF isNaN(a) THEN NaN
    ELSE IF IsInf(a) THEN (IF p = 0 THEN NaN ELSE a)
    ELSE Sgn(a) * ((Abs(a) \div q) * p + RoundDiv((Abs(a) % q) * p, q))

\* a < b, a <= b, a > b, a >= b : false as soon as one side is NaN
Lt(a, b) == ~isNaN(a) /\ ~isNaN(b) /\ a < b
Le(a, b) == ~isNaN(a) /\ ~isNaN(b) /\ a <= b
Gt(a, b) == Lt(b, a)
Ge(a, b) == Le(b, a)

\* Math.min, Math.max
Min(a, b) == IF isNaN(a) \/ isNaN(b) THEN NaN ELSE IF a < b THEN a ELSE b
Max(a, b) == IF isNaN(a) \/ isNaN(b) THEN NaN ELSE IF a > b THEN a ELSE b

\* Math.sqrt on the lattice: the nearest integer to the square root
\* (FloorSqrt is the largest r with r * r <= x, found digit by digit in
\* base 32: x is at most MaxNum, so r is below 32^3)
SqrtDigit(x, base, unit) ==
    CHOOSE k \in 0 .. 31 :
        /\ (base + k * unit) * (base + k * unit) <= x
        /\ k = 31 \/ (base + (k + 1) * unit) * (base + (k + 1) * unit) > x
FloorSqrt(x) ==
    LET r2 == 1024 * SqrtDigit(x, 0, 1024)
        r1 == r2 + 32 * SqrtDigit(x, r2, 32)
    IN  r1 + SqrtDigit(x, r1, 1)
Sqrt(x) ==
    IF isNaN(x) \/ x < 0 THEN NaN
    ELSE IF x = Inf THEN Inf
    ELSE LET r == FloorSqrt(x)
         IN  IF x - r * r > r THEN r + 1 ELSE r

\* ------------------------------------------------------------------------
\* gl-matrix vectors and matrices (tuples, column-major as in gl-matrix)
\* ------------------------------------------------------------------------
Vec3Zero == <<0, 0, 0>>
Vec2Zero == <<0, 0>>

vec3add(a, b) == <<Add(a[1], b[1]), Add(a[2], b[2]), Add(a[3], b[3])>>
vec3sub(a, b) == <<Sub(a[1], b[1]), Sub(a[2], b[2]), Sub(a[3], b[3])>>
vec3scale(a, s) == <<Mul(a[1], s), Mul(a[2], s), Mul(a[3], s)>>
vec3dot(a, b) == Add(Add(Mul(a[1], b[1]), Mul(a[2], b[2])), Mul(a[3], b[3]))
vec2add(a, b) == <<Add(a[1], b[1]), Add(a[2], b[2])>>
vec2sub(a, b) == <<Sub(a[1], b[1]), Sub(a[2], b[2])>>
vec2scale(a, s) == <<Mul(a[1], s), Mul(a[2], s)>>
vec2dot(a, b) == Add(Mul(a[1], b[1]), Mul(a[2], b[2]))

\* glm.vec2.length, glm.vec3.length
vec2length(a) == Sqrt(vec2dot(a, a))
vec3length(a) == Sqrt(vec3dot(a, a))

\* cross2 of MathUtils
cross2(a, b) == Sub(Mul(a[1], b[2]), Mul(a[2], b[1]))

\* Math.cos and Math.sin of an angle given in quarter turns
Cos(a) == IF isNaN(a) \/ IsInf(a) THEN NaN
          ELSE CASE a % 4 = 0 -> 1 [] a % 4 = 2 -> -1 [] OTHER -> 0
Sin(a) == IF isNaN(a) \/ IsInf(a) THEN NaN
          ELSE CASE a % 4 = 1 -> 1 [] a % 4 = 3 -> -1 [] OTHER -> 0

\* rotationMatrix of MathUtils: mat2.fromValues(c, s, -s, c)
rotationMatrix(angle) == <<Cos(angle), Sin(angle), Neg(Sin(angle)), Cos(angle)>>

\* glm.mat2.transpose
mat2transpose(m) == <<m[1], m[3], m[2], m[4]>>

\* glm.vec2.transformMat2: (m0 x + m2 y, m1 x + m3 y)
transformMat2(v, m) ==
    <<Add(Mul(m[1], v[1]), Mul(m[3], v[2])), Add(Mul(m[2], v[1]), Mul(m[4], v[2]))>>

\* rotate2D and transform2D of MathUtils
rotate2D(v, angle) == Call("transformMat2", <<v, rotationMatrix(angle)>>)
transform2D(v, r) == vec2add(Call("transformMat2", <<r, rotationMatrix(v[3])>>), <<v[1], v[2]>>)

\* a 3x3 matrix is a 9-tuple, entry [3c + r + 1] in column c, row r
Mat3Zero == <<0, 0, 0, 0, 0, 0, 0, 0, 0>>
mat3add(a, b) ==
    <<Add(a[1], b[1]), Add(a[2], b[2]), Add(a[3], b[3]),
      Add(a[4], b[4]), Add(a[5], b[5]), Add(a[6], b[6]),
      Add(a[7], b[7]), Add(a[8], b[8]), Add(a[9], b[9])>>
mat3diag(x, y, z) == <<x, 0, 0, 0, y, 0, 0, 0, z>>

\* outerMat3D of MathUtils
outerMat3D(a, b) ==
    <<Mul(a[1], b[1]), Mul(a[2], b[1]), Mul(a[3], b[1]),
      Mul(a[1], b[2]), Mul(a[2], b[2]), Mul(a[3], b[2]),
      Mul(a[1], b[3]), Mul(a[2], b[3]), Mul(a[3], b[3])>>

\* glm.vec3.transformMat3
transformMat3(v, m) ==
    <<Add(Add(Mul(m[1], v[1]), Mul(m[4], v[2])), Mul(m[7], v[3])),
      Add(Add(Mul(m[2], v[1]), Mul(m[5], v[2])), Mul(m[8], v[3])),
      Add(Add(Mul(m[3], v[1]), Mul(m[6], v[2])), Mul(m[9], v[3]))>>

\* <<floor(x * y / c), (x * y) mod c>> for 0 <= x < c, 2^29 <= c < 2^30 and
\* 0 <= y <= 2^15, on halves of 15 bits: the quotient lies within 2 of its
\* estimate from the high halves, and G(k) is the high part of x * y - k * c
DivStep(x, y, c) ==
    LET B == 2^15
        x1 == x \div B
        x0 == x % B
        c1 == c \div B
        c0 == c % B
        qhat == (x1 * y) \div c1
        G(k) == (x1 * y - k * c1) + ((x0 * y - k * c0) \div B)
        q == CHOOSE k \in (qhat - 3) .. (qhat + 3) : G(k) >= 0 /\ G(k + 1) < 0
    IN  <<q, G(q) * B + ((x0 * y - q * c0) % B)>>

\* <<floor(r * n / c), (r * n) mod c>> for 0 <= r < c < 2^30 and 0 <= n < 2^30,
\* so that no intermediate value leaves the machine range: r and c are
\* shifted until c has 30 bits, and n is taken in two halves
MulMod(r, n, c) ==
    LET B == 2^15
        s == CHOOSE k \in 0 .. 29 : c >= 2^(29 - k) /\ c < 2^(30 - k)
        cs == c * 2^s
        rs == r * 2^s
        a == DivStep(rs, n \div B, cs)
        b == DivStep(a[2], B, cs)
        d == DivStep(rs, n % B, cs)
        m == b[2] + d[2]
    IN  <<a[1] * B + b[1] + d[1] + (IF m >= cs THEN 1 ELSE 0),
          (IF m >= cs THEN m - cs ELSE m) \div 2^s>>

\* The value of a block of statements: Last(<<a, b, c>>) is c, and a, b, c
\* are evaluated in this order, the order of the statements of the source.
Last(s) == s[Len(s)]

IsFinite(x) == ~isNaN(x) /\ ~IsInf(x)

\* a * b / c rounded once, for finite a, b and finite non-zero c
MulDiv(a, b, c) ==
    LET A == Abs(a)
        B == Abs(b)
        CC == Abs(c)
        big == Mul(A \div CC, B)
        h == Call("MulMod", <<A % CC, B, CC>>)
        frac == h[1] + (IF h[2] >= CC - h[2] THEN 1 ELSE 0)
    IN  IF a = 0 \/ b = 0 THEN 0
        ELSE IF IsInf(big) THEN Sgn(a) * Sgn(b) * Sgn(c) * Inf
        ELSE Sgn(a) * Sgn(b) * Sgn(c) * Sat(big + frac)

\* (a / c) * (b / c) * c : the products L * L * D of the factorisation.  A
\* double keeps the quotient a / c to 53 bits; the lattice keeps it exactly
\* and rounds the product once.
QuadOver(a, b, c) ==
    IF IsFinite(a) /\ IsFinite(b) /\ IsFinite(c) /\ c # 0
    THEN Call("MulDiv", <<a, b, c>>)
    ELSE Mul(Mul(Div(a, c), Div(b, c)), c)

\* (a / c) * y : the products L * y of the substitutions
ProdOver(a, y, c) ==
    IF IsFinite(a) /\ IsFinite(y) /\ IsFinite(c) /\ c # 0
    THEN Call("MulDiv", <<a, y, c>>)
    ELSE Mul(Div(a, c), y)

\* solveLDLT of MathUtils; A[0], A[3], ... of the source are A[1], A[4], ...
\* L21 = A[4] / D1, L31 = A[7] / D1 and L32 = LDLT_N32 / D2 are kept as
\* numerator and pivot.
LDLT_D1(A) == A[1]
LDLT_D2(A) == Sub(A[5], Call("QuadOver", <<A[4], A[4], LDLT_D1(A)>>))
LDLT_N32(A) == Sub(A[8], Call("QuadOver", <<A[7], A[4], LDLT_D1(A)>>))
LDLT_D3(A) ==
    LET D2 == LDLT_D2(A)
        N32 == LDLT_N32(A)
    IN  Last(<<D2, N32, Sub(A[9], Add(Call("QuadOver", <<A[7], A[7], LDLT_D1(A)>>),
                                      Call("QuadOver", <<N32, N32, D2>>)))>>)
solveLDLT(A, b) ==
    LET D1 == LDLT_D1(A)
        D2 == LDLT_D2(A)
        N32 == LDLT_N32(A)
        D3 == Call("LDLT_D3", <<A>>)
        y1 == b[1]
        y2 == Sub(b[2], ProdOver(A[4], y1, D1))
        y3 == Sub(Sub(b[3], ProdOver(A[7], y1, D1)), ProdOver(N32, y2, D2))
        z1 == Div(y1, D1)
        z2 == Div(y2, D2)
        z3 == Div(y3, D3)
        x3 == z3
        x2 == Sub(z2, ProdOver(N32, x3, D2))
        x1 == Sub(Sub(z1, ProdOver(A[4], x2, D1)), ProdOver(A[7], x3, D1))
    IN  Last(<<D2, N32, D3, y2, y3, z3, x2, x1, <<x1, x2, x3>>>>)

\* ------------------------------------------------------------------------
\* Constants of the program
\* ------------------------------------------------------------------------
PENALTY_MIN == 1
PENALTY_MAX == 1000000000
\* ENERGY_STIFFNESS_MIN = 0.01; energy stiffnesses are kept in hundredths
ENERGY_STIFFNESS_MIN == 1
\* Force.MAX_ROWS
MAX_ROWS == 4
\* 1 / dt for the dt = 1 / 60 that setDefaults and Clear install
InvDt == 60
\* 0.99, the default of alpha and gamma, in hundredths
DefaultAlpha == 99
DefaultGamma == 99
DefaultBeta == 100000
DefaultBetaEnergy == 10
DefaultIterations == 10
\* the bound of the rotation velocity in the body warm start
MaxRotationVelocity == 50
\* gravity (0, -9.81), kept in thousandths of a unit per second squared
DefaultGravity == <<0, -9810>>
\* the replacement (0, 0.000001) of a zero gravity: the smallest positive
\* value the gravity lattice has
TinyGravity == <<0, 1>>
\* thousandths per unit of gravity
GravityScale == 1000
\* EigenProjectionMode
CLAMP == 0
ABSOLUTE == 1
ADAPTIVE == 2

\* ------------------------------------------------------------------------
\* Objects.  Bodies, forces and energies live in three heaps indexed by
\* identifiers; 0 stands for null.
\* ------------------------------------------------------------------------
BodyIds == 1 .. 3
ForceIds == 1 .. 4
EnergyIds == 1 .. 1

\* Array.prototype.indexOf, 1-based; 0 when absent
RECURSIVE IndexFrom(_, _, _)
IndexFrom(s, x, i) ==
    IF i > Len(s) THEN 0 ELSE IF s[i] = x THEN i ELSE IndexFrom(s, x, i + 1)
indexOf(s, x) == IndexFrom(s, x, 1)

\* Array.prototype.splice(i, 1)
splice(s, i) == SubSeq(s, 1, i - 1) \o SubSeq(s, i + 1, Len(s))

\* const i = s.indexOf(x); if (i !== -1) s.splice(i, 1)
removeOne(s, x) == IF indexOf(s, x) = 0 THEN s ELSE splice(s, indexOf(s, x))

Range(s) == {s[i] : i \in 1 .. Len(s)}

\* the four rows of a force, all holding x
Rows(x) == <<x, x, x, x>>

\* a slot of the body heap that holds no object
NoBody ==
    [made |-> FALSE, width |-> 0, height |-> 0, density |-> 0, mass |-> 0,
     friction |-> 0, position |-> Vec3Zero, velocity |-> Vec3Zero,
     prevVelocity |-> Vec3Zero, staticBody |-> TRUE, moment |-> 0, radius |-> 0,
     lastPosition |-> Vec3Zero, inertial |-> Vec3Zero, forces |-> <<>>,
     energies |-> <<>>, isDragged |-> FALSE, addedDragVelocity |-> Vec3Zero]

\* new RigidBox(scale, color, density, friction, position, velocity)
RigidBox(scale, density, friction, position, velocity) ==
    LET m == Mul(Mul(scale[1], scale[2]), density)
    IN  [made |-> TRUE, width |-> scale[1], height |-> scale[2],
         density |-> density, mass |-> m, friction |-> friction,
         position |-> position, velocity |-> velocity, prevVelocity |-> velocity,
         staticBody |-> (m = 0),
         moment |-> Div(Mul(m, vec2dot(scale, scale)), 12),
         radius |-> Div(Sqrt(vec2dot(scale, scale)), 2),
         lastPosition |-> Vec3Zero, inertial |-> Vec3Zero, forces |-> <<>>,
         energies |-> <<>>, isDragged |-> FALSE, addedDragVelocity |-> Vec3Zero]

\* a slot of the force heap that holds no object
NoForce ==
    [kind |-> "none", bodies |-> <<>>, bodyA |-> 0, bodyB |-> 0,
     C |-> <<>>, fmin |-> <<>>, fmax |-> <<>>, stiffness |-> <<>>,
     fracture |-> <<>>, penalty |-> <<>>, lambda |-> <<>>,
     rA |-> Vec2Zero, rB |-> Vec2Zero, C0 |-> Vec3Zero, torqueArm |-> 0,
     restAngle |-> 0, contacts |-> <<>>, oldContacts |-> <<>>,
     numContacts |-> 0, friction |-> 0]

\* a slot of the energy heap that holds no object
NoEnergy ==
    [kind |-> "none", bodies |-> <<>>, bodyA |-> 0, bodyB |-> 0, bodyC |-> 0,
     grad_E |-> <<>>, hess_E |-> <<>>, targetStiffness |-> 0,
     effectiveStiffness |-> 0, strainMeasure |-> 0, cachedEnergy |-> 0,
     lameMu |-> 0, lameLambda |-> 0, Dm |-> <<0, 0, 0, 0>>, restArea2 |-> 0]

\* bodiesArray.forEach(body => { if (body) { bodies.push(body); ... } })
RECURSIVE NonNull(_)
NonNull(bodiesArray) ==
    IF bodiesArray = <<>> THEN <<>>
    ELSE IF Head(bodiesArray) = 0 THEN NonNull(Tail(bodiesArray))
    ELSE <<Head(bodiesArray)>> \o NonNull(Tail(bodiesArray))

\* body.forces.push(this) for every body of bs, one push per occurrence
RECURSIVE PushForce(_, _, _)
PushForce(rb, bs, f) ==
    IF bs = <<>> THEN rb
    ELSE PushForce([rb EXCEPT ![Head(bs)].forces = Append(@, f)], Tail(bs), f)

\* the constructor of Force
Force_new(w, f, kind, bodiesArray) ==
    [w EXCEPT
        !.rigidBox = PushForce(@, NonNull(bodiesArray), f),
        !.force[f] = [NoForce EXCEPT
            !.kind = kind, !.bodies = NonNull(bodiesArray),
            !.C = Rows(0), !.fmin = Rows(NInf), !.fmax = Rows(Inf),
            !.stiffness = Rows(Inf), !.fracture = Rows(Inf),
            !.penalty = Rows(0), !.lambda = Rows(0)]]

\* the plausible fault of a disable that keeps the penalties
Force_disable_KeepPenalty(fo) ==
    [fo EXCEPT !.stiffness = Rows(0), !.lambda = Rows(0)]

\* Force.disable
Force_disable(fo) ==
    [fo EXCEPT !.stiffness = Rows(0), !.penalty = Rows(0), !.lambda = Rows(0)]

\* body.forces: remove the first occurrence of f, once per entry of bs
RECURSIVE UnlinkForce(_, _, _)
UnlinkForce(rb, bs, f) ==
    IF bs = <<>> THEN rb
    ELSE UnlinkForce([rb EXCEPT ![Head(bs)].forces = removeOne(@, f)], Tail(bs), f)

\* the plausible fault of a destroy that forgets the bodies' back-references
Force_destroy_KeepLinks(w, f) ==
    [w EXCEPT
        !.force[f] = [@ EXCEPT
            !.bodies = <<>>, !.C = <<>>, !.fmin = <<>>, !.fmax = <<>>,
            !.stiffness = <<>>, !.fracture = <<>>, !.penalty = <<>>,
            !.lambda = <<>>, !.contacts = <<>>, !.oldContacts = <<>>]]

\* Force.destroy, with the override of Manifold that empties the contacts
Force_destroy(w, f) ==
    [w EXCEPT
        !.rigidBox = UnlinkForce(@, w.force[f].bodies, f),
        !.force[f] = [@ EXCEPT
            !.bodies = <<>>, !.C = <<>>, !.fmin = <<>>, !.fmax = <<>>,
            !.stiffness = <<>>, !.fracture = <<>>, !.penalty = <<>>,
            !.lambda = <<>>, !.contacts = <<>>, !.oldContacts = <<>>]]

RECURSIVE DestroyForces(_, _)
DestroyForces(w, fs) ==
    IF fs = <<>> THEN w ELSE DestroyForces(Force_destroy(w, Head(fs)), Tail(fs))

\* new Joint(bodiesArray, rA, rB, stiffness, fracture): with another number of
\* bodies than one or two the joint destroys itself, this.bodyB is undefined
\* and the read of its position throws; the holes of the arrays it has
\* written by then are held as NaN
Joint_new(w, f, bodiesArray, rA, rB, stiffness, fracture) ==
    LET w0 == Force_new(w, f, "Joint", bodiesArray)
        w1 == IF Len(w0.force[f].bodies) < 1 \/ Len(w0.force[f].bodies) > 2
              THEN Force_destroy(w0, f)
              ELSE w0
        bs == w1.force[f].bodies
        bodyA == IF Len(bs) = 2 THEN bs[1] ELSE 0
        bodyB == IF Len(bs) = 2 THEN bs[2] ELSE IF Len(bs) = 1 THEN bs[1] ELSE 0
        angleA == IF bodyA # 0 THEN w.rigidBox[bodyA].position[3] ELSE 0
        tA == IF bodyA # 0
              THEN <<w.rigidBox[bodyA].width, w.rigidBox[bodyA].height>>
              ELSE Vec2Zero
        tB == <<w.rigidBox[bodyB].width, w.rigidBox[bodyB].height>>
    IN  IF bodyB = 0
        THEN [w1 EXCEPT
                 !.trace.threw = TRUE,
                 !.force[f] = [@ EXCEPT
                     !.rA = rA, !.rB = rB,
                     !.stiffness = <<stiffness[1], stiffness[2], stiffness[3]>>,
                     !.fmax = <<NaN, NaN, fracture>>,
                     !.fmin = <<NaN, NaN, Neg(fracture)>>,
                     !.fracture = <<NaN, NaN, fracture>>]]
        ELSE [w1 EXCEPT !.force[f] = [@ EXCEPT
            !.bodyA = bodyA, !.bodyB = bodyB, !.rA = rA, !.rB = rB,
            !.stiffness = <<stiffness[1], stiffness[2], stiffness[3], Inf>>,
            !.fmax = <<Inf, Inf, fracture, Inf>>,
            !.fmin = <<NInf, NInf, Neg(fracture), NInf>>,
            !.fracture = <<Inf, Inf, fracture, Inf>>,
            !.restAngle = Sub(angleA, w.rigidBox[bodyB].position[3]),
            !.torqueArm = vec2dot(vec2add(tA, tB), vec2add(tA, tB))]]

\* new Manifold([bodyA, bodyB])
Manifold_new(w, f, bodyA, bodyB) ==
    LET w1 == Force_new(w, f, "Manifold", <<bodyA, bodyB>>)
    IN  [w1 EXCEPT !.force[f] = [@ EXCEPT
            !.bodyA = bodyA, !.bodyB = bodyB,
            !.fmax = <<0, Inf, 0, Inf>>, !.fmin = <<NInf, NInf, NInf, NInf>>]]

\* Force.getRows of the two subclasses
getRows(fo) == IF fo.kind = "Joint" THEN 3 ELSE 2 * Len(fo.contacts)

\* RigidBox.isConstrainedTo
isConstrainedTo(w, a, b) ==
    \E i \in 1 .. Len(w.rigidBox[a].forces) :
        indexOf(w.force[w.rigidBox[a].forces[i]].bodies, b) # 0

\* RigidBox.destroy
RigidBox_destroy(w, b) ==
    LET forcesToDestroy == w.rigidBox[b].forces
        w1 == [w EXCEPT !.rigidBox[b].forces = <<>>]
        w2 == DestroyForces(w1, forcesToDestroy)
    IN  [w2 EXCEPT !.rigidBox[b] = [@ EXCEPT
            !.prevVelocity = Vec3Zero, !.inertial = Vec3Zero,
            !.lastPosition = Vec3Zero]]

RECURSIVE DestroyBodies(_, _)
DestroyBodies(w, bs) ==
    IF bs = <<>> THEN w ELSE DestroyBodies(RigidBox_destroy(w, Head(bs)), Tail(bs))

\* ------------------------------------------------------------------------
\* StVKEnergy.  The element keeps its matrices as integer numerators over a
\* common denominator: DmInverse = DmAdj / DmDet, F = Fnum / DmDet,
\* L = L2 / (2 DmDet^2).  Stiffnesses and the strain measure are in
\* hundredths.
\* ------------------------------------------------------------------------
mat2det(m) == Sub(Mul(m[1], m[4]), Mul(m[3], m[2]))

\* glm.mat2.multiply(out, a, b)
mat2multiply(a, b) ==
    <<Add(Mul(a[1], b[1]), Mul(a[3], b[2])), Add(Mul(a[2], b[1]), Mul(a[4], b[2])),
      Add(Mul(a[1], b[3]), Mul(a[3], b[4])), Add(Mul(a[2], b[3]), Mul(a[4], b[4]))>>

Mat2Identity == <<1, 0, 0, 1>>

\* body.energies.push(this) for every body of bs
RECURSIVE PushEnergy(_, _, _)
PushEnergy(rb, bs, e) ==
    IF bs = <<>> THEN rb
    ELSE PushEnergy([rb EXCEPT ![Head(bs)].energies = Append(@, e)], Tail(bs), e)

RECURSIVE UnlinkEnergy(_, _, _)
UnlinkEnergy(rb, bs, e) ==
    IF bs = <<>> THEN rb
    ELSE UnlinkEnergy([rb EXCEPT ![Head(bs)].energies = removeOne(@, e)], Tail(bs), e)

\* EnergyFEM.destroy
Energy_destroy(w, e) ==
    [w EXCEPT
        !.rigidBox = UnlinkEnergy(@, w.energy[e].bodies, e),
        !.energy[e] = [@ EXCEPT !.bodies = <<>>, !.grad_E = <<>>, !.hess_E = <<>>]]

RECURSIVE DestroyEnergies(_, _)
DestroyEnergies(w, es) ==
    IF es = <<>> THEN w ELSE DestroyEnergies(Energy_destroy(w, Head(es)), Tail(es))

\* Dm of the constructor and Ds of computeDeformationGradient
EdgeMatrix(w, a, b, c) ==
    LET pA == w.rigidBox[a].position
        pB == w.rigidBox[b].position
        pC == w.rigidBox[c].position
    IN  <<Sub(pB[1], pA[1]), Sub(pB[2], pA[2]), Sub(pC[1], pA[1]), Sub(pC[2], pA[2])>>

\* new StVKEnergy([A, B, C], E, nu) with three bodies; nu in hundredths
StVK_new(w, e, bodiesArray, E, nu) ==
    LET bs == NonNull(bodiesArray)
        mu == Div(Mul(E, 100), 2 * (100 + nu))
        lambda == Div(Mul(Mul(E, nu), 100), (100 + nu) * (100 - 2 * nu))
    IN  [w EXCEPT
            !.rigidBox = PushEnergy(@, bs, e),
            !.energy[e] = [NoEnergy EXCEPT
                !.kind = "StVK", !.bodies = bs,
                !.bodyA = bs[1], !.bodyB = bs[2], !.bodyC = bs[3],
                !.grad_E = <<Vec3Zero>>, !.hess_E = <<mat3diag(1, 1, 1)>>,
                !.lameMu = mu, !.lameLambda = lambda,
                !.Dm = EdgeMatrix(w, bs[1], bs[2], bs[3]),
                !.restArea2 = Abs(mat2det(EdgeMatrix(w, bs[1], bs[2], bs[3]))),
                !.targetStiffness = Mul(Add(mu, Mul(2, lambda)), 100),
                !.effectiveStiffness = 100]]

\* glm.mat2.invert leaves the identity in DmInverse when Dm is singular
DmDet(en) == IF mat2det(en.Dm) = 0 THEN 1 ELSE mat2det(en.Dm)
DmAdj(en) ==
    IF mat2det(en.Dm) = 0 THEN Mat2Identity
    ELSE <<en.Dm[4], Neg(en.Dm[2]), Neg(en.Dm[3]), en.Dm[1]>>

\* gradN0, gradN1, gradN2 of the body, as numerators over DmDet
gradNi(en, body) ==
    LET inv == DmAdj(en)
        gradN1 == <<inv[1], inv[3]>>
        gradN2 == <<inv[2], inv[4]>>
    IN  IF body = en.bodyA THEN vec2scale(vec2add(gradN1, gradN2), -1)
        ELSE IF body = en.bodyB THEN gradN1
        ELSE gradN2

\* computeDeformationGradient: F as numerator over DmDet
Fnum(w, en) == Call("mat2multiply", <<EdgeMatrix(w, en.bodyA, en.bodyB, en.bodyC), DmAdj(en)>>)

\* F^T F - I as numerator over DmDet^2 (twice the Green strain L)
L2num_FtF(FtF, d2) == <<Sub(FtF[1], d2), FtF[2], FtF[3], Sub(FtF[4], d2)>>

L2num_of(F, d) ==
    Call("L2num_FtF", <<Call("mat2multiply", <<mat2transpose(F), F>>), Mul(d, d)>>)

L2num(w, en) == Call("L2num_of", <<Call("Fnum", <<w, en>>), Call("DmDet", <<en>>)>>)

SumSquares(m) ==
    Add(Add(Mul(m[1], m[1]), Mul(m[2], m[2])), Add(Mul(m[3], m[3]), Mul(m[4], m[4])))

\* frobNormL + traceL, in hundredths
StrainOf(L2, d) ==
    Div(Mul(100, Add(Sqrt(Call("SumSquares", <<L2>>)), Abs(Add(L2[1], L2[4])))),
        Mul(2, Mul(d, d)))

StrainMeasure(w, en) ==
    Call("StrainOf", <<Call("L2num", <<w, en>>), Call("DmDet", <<en>>)>>)

\* StVKEnergy.updateStrainMeasures
updateStrainMeasures(w, e) ==
    [w EXCEPT !.energy[e].strainMeasure = Call("StrainMeasure", <<w, w.energy[e]>>)]

\* SVD2x2: F = U diag(S) V^T.  Exact where F is diagonal (the elements of
\* the levels below stretch along their rest axes): U = V = I, S = diag F.
SVD2x2(F) == [U |-> Mat2Identity, S |-> <<F[1], F[4]>>, V |-> Mat2Identity]

\* the four eigenvalues of computeHessianEigenvalues from n1 and n2
HessianEigenvalues_lam(a, b, d, d2, mu, lam, n1, n2) ==
    LET lamTwist == IF a # b /\ ~isNaN(a) /\ ~isNaN(b)
                    THEN Div(Sub(n1, n2), Mul(Sub(a, b), d2))
                    ELSE Div(Mul(mu, Sub(Mul(b, b), d2)), d2)
        lamFlip == IF (d > 0 /\ Gt(Add(a, b), 0)) \/ (d < 0 /\ Lt(Add(a, b), 0))
                   THEN Div(Add(n1, n2), Mul(Add(a, b), d2))
                   ELSE mu
        lamScale1 == Div(Sub(Add(Mul(Mul(3, mu), Mul(a, a)),
                                 Div(Mul(lam, Add(Mul(3, Mul(a, a)), Mul(b, b))), 2)),
                             Mul(Add(mu, lam), d2)), d2)
        lamScale2 == Div(Sub(Add(Mul(Mul(3, mu), Mul(b, b)),
                                 Div(Mul(lam, Add(Mul(3, Mul(b, b)), Mul(a, a))), 2)),
                             Mul(Add(mu, lam), d2)), d2)
    IN  <<lamScale1, lamScale2, lamTwist, lamFlip>>

\* n1 and n2 of computeHessianEigenvalues from traceS2
HessianEigenvalues_n(a, b, d, d2, mu, lam, traceS2) ==
    Call("HessianEigenvalues_lam", <<a, b, d, d2, mu, lam,
        Mul(a, Add(Mul(mu, Sub(Mul(a, a), d2)), Div(Mul(lam, traceS2), 2))),
        Mul(b, Add(Mul(mu, Sub(Mul(b, b), d2)), Div(Mul(lam, traceS2), 2)))>>)

\* traceS2 of computeHessianEigenvalues
HessianEigenvalues_trace(a, b, d, d2, mu, lam) ==
    Call("HessianEigenvalues_n", <<a, b, d, d2, mu, lam,
        Sub(Add(Mul(a, a), Mul(b, b)), Mul(2, d2))>>)

\* StVKEnergy.computeHessianEigenvalues; S = <<a, b>> / d
computeHessianEigenvalues(en, S, d) ==
    Call("HessianEigenvalues_trace",
         <<S[1], S[2], d, Mul(d, d), en.lameMu, en.lameLambda>>)

\* the floor 1e-6 of the projection is below the lattice resolution
EigenFloor == 0

\* Math.max(1e-6, x) of the CLAMP branch (Math.max gives NaN on NaN)
ClampEigen(x) == Max(EigenFloor, x)

\* Math.abs then the floor of the ABSOLUTE branch
AbsEigen(x) == IF Lt(Abs(x), EigenFloor) THEN EigenFloor ELSE Abs(x)

\* StVKEnergy.project; trustRegionRho is in hundredths, threshold 0.01
project(eigenvalues, projectionMode, trustRegionRho) ==
    LET useAbsolute ==
            \/ projectionMode = ABSOLUTE
            \/ projectionMode = ADAPTIVE /\ Gt(Abs(Sub(trustRegionRho, 100)), 1)
    IN  IF useAbsolute
        THEN <<AbsEigen(eigenvalues[1]), AbsEigen(eigenvalues[2]),
               AbsEigen(eigenvalues[3]), AbsEigen(eigenvalues[4])>>
        ELSE <<ClampEigen(eigenvalues[1]), ClampEigen(eigenvalues[2]),
               ClampEigen(eigenvalues[3]), ClampEigen(eigenvalues[4])>>

\* NeoHookeanEnergy.project: the ADAPTIVE case only chooses useAbsolute
NeoHookean_project(eigenvalues, projectionMode, trustRegionRho) ==
    LET useAbsolute ==
            \/ projectionMode = ABSOLUTE
            \/ projectionMode = ADAPTIVE /\ Gt(Abs(Sub(trustRegionRho, 100)), 1)
    IN  IF useAbsolute
        THEN <<AbsEigen(eigenvalues[1]), AbsEigen(eigenvalues[2]),
               AbsEigen(eigenvalues[3]), AbsEigen(eigenvalues[4])>>
        ELSE IF projectionMode = CLAMP
        THEN <<ClampEigen(eigenvalues[1]), ClampEigen(eigenvalues[2]),
               ClampEigen(eigenvalues[3]), ClampEigen(eigenvalues[4])>>
        ELSE eigenvalues

\* no projection made yet
NoProbe == [eigenvalues |-> <<0, 0, 0, 0>>, projectionMode |-> ABSOLUTE,
            trustRegionRho |-> 100, projected |-> <<>>, by |-> "none"]

\* the gradient, Hessian and energy handleInvertedElement stores
InvertedElement_store(w, e, d4, detF, alpha, gradVec, scale, k) ==
    [w EXCEPT !.energy[e] = [@ EXCEPT
        !.grad_E = <<<<Div(Mul(scale, gradVec[1]), d4),
                       Div(Mul(scale, gradVec[2]), d4), 0>>>>,
        !.hess_E = <<mat3diag(k, k, 0)>>,
        !.cachedEnergy =
            Div(Mul(Mul(alpha, Mul(detF, detF)), w.energy[e].restArea2),
                Mul(2, d4))]]

\* the barrier terms of handleInvertedElement from F, Dm's determinant and
\* the shape gradient
InvertedElement(w, e, F, d, g, detF, alpha) ==
    Call("InvertedElement_store", <<w, e, Mul(Mul(d, d), Mul(d, d)), detF, alpha,
        Call("transformMat2", <<g, <<F[4], Neg(F[2]), Neg(F[3]), F[1]>>>>),
        Mul(Mul(alpha, detF), w.energy[e].restArea2),
        Div(Mul(alpha, w.energy[e].restArea2), 2)>>)

\* StVKEnergy.handleInvertedElement (eps = 1e-3 is below the resolution)
handleInvertedElement(w, e, body) ==
    Call("InvertedElement_F", <<w, e, Call("Fnum", <<w, w.energy[e]>>),
                                Call("gradNi", <<w.energy[e], body>>)>>)

\* handleInvertedElement once F is known
InvertedElement_F(w, e, F, g) ==
    Call("InvertedElement", <<w, e, F, Call("DmDet", <<w.energy[e]>>), g,
                              mat2det(F), Mul(w.energy[e].lameMu, 10)>>)

\* outerMat2D of computeEnergyTerms
outerMat2D(a, b) ==
    <<Mul(a[1], b[1]), Mul(a[2], b[1]), Mul(a[1], b[2]), Mul(a[2], b[2])>>

\* the entry (i, j) of H_F from the four outer products
HessianF_sum(p, i, j, D11, D22, twist, flip) ==
    Add(Add(IF i = j THEN 1 ELSE 0,
            Add(Mul(p[1], Mul(D11[i + 1], D11[j + 1])),
                Mul(p[2], Mul(D22[i + 1], D22[j + 1])))),
        Add(Div(Mul(p[3], Mul(twist[i + 1], twist[j + 1])), 2),
            Div(Mul(p[4], Mul(flip[i + 1], flip[j + 1])), 2)))

\* twist = D12 - D21 and flip = D12 + D21 of computeEnergyTerms
HessianF_twist(p, i, j, D11, D22, D12, D21) ==
    Call("HessianF_sum", <<p, i, j, D11, D22,
        <<Sub(D12[1], D21[1]), Sub(D12[2], D21[2]),
          Sub(D12[3], D21[3]), Sub(D12[4], D21[4])>>,
        <<Add(D12[1], D21[1]), Add(D12[2], D21[2]),
          Add(D12[3], D21[3]), Add(D12[4], D21[4])>>>>)

\* H_F[i * 4 + j] of computeEnergyTerms: glm.mat4.create() is the identity,
\* to which the four scaled outer products are added
HessianF(U, V, p, i, j) ==
    Call("HessianF_twist", <<p, i, j,
        Call("outerMat2D", <<<<U[1], U[2]>>, <<V[1], V[2]>>>>),
        Call("outerMat2D", <<<<U[3], U[4]>>, <<V[3], V[4]>>>>),
        Call("outerMat2D", <<<<U[1], U[2]>>, <<V[3], V[4]>>>>),
        Call("outerMat2D", <<<<U[3], U[4]>>, <<V[1], V[2]>>>>)>>)

\* B^T H B of computeEnergyTerms for one 2x2 block of H_F, B = (bx, by)
HessianBlock(g, a, b, c, dd) ==
    Add(Add(Mul(Mul(g[1], g[1]), a), Mul(Mul(g[1], g[2]), b)),
        Add(Mul(Mul(g[2], g[1]), c), Mul(Mul(g[2], g[2]), dd)))

\* the scaling restArea / (2 d^2) of the Hessian block
HessianArea(en, d2, x) == Div(Mul(en.restArea2, x), Mul(2, d2))

\* the energy, strain, gradient and Hessian computeEnergyTerms stores
EnergyTerms_store(w, e, d2, d4, density, gradVec, strain, H) ==
    [w EXCEPT !.energy[e] = [@ EXCEPT
        !.cachedEnergy = Div(Mul(w.energy[e].restArea2, density), Mul(8, d4)),
        !.strainMeasure = strain,
        !.grad_E =
            <<<<Div(Mul(w.energy[e].restArea2, gradVec[1]), Mul(4, d4)),
                Div(Mul(w.energy[e].restArea2, gradVec[2]), Mul(4, d4)), 0>>>>,
        !.hess_E = <<<<Call("HessianArea", <<w.energy[e], d2, H[1]>>),
                       Call("HessianArea", <<w.energy[e], d2, H[4]>>), 0,
                       Call("HessianArea", <<w.energy[e], d2, H[2]>>),
                       Call("HessianArea", <<w.energy[e], d2, H[3]>>), 0,
                       0, 0, 0>>>>]]

\* the Hessian blocks <<H11, H12, H22, H21>> of computeEnergyTerms
EnergyTerms_H(g, U, V, p) ==
    <<Call("HessianBlock", <<g, Call("HessianF", <<U, V, p, 0, 0>>),
                                Call("HessianF", <<U, V, p, 0, 2>>),
                                Call("HessianF", <<U, V, p, 2, 0>>),
                                Call("HessianF", <<U, V, p, 2, 2>>)>>),
      Call("HessianBlock", <<g, Call("HessianF", <<U, V, p, 0, 1>>),
                                Call("HessianF", <<U, V, p, 0, 3>>),
                                Call("HessianF", <<U, V, p, 2, 1>>),
                                Call("HessianF", <<U, V, p, 2, 3>>)>>),
      Call("HessianBlock", <<g, Call("HessianF", <<U, V, p, 1, 1>>),
                                Call("HessianF", <<U, V, p, 1, 3>>),
                                Call("HessianF", <<U, V, p, 3, 1>>),
                                Call("HessianF", <<U, V, p, 3, 3>>)>>),
      Call("HessianBlock", <<g, Call("HessianF", <<U, V, p, 1, 0>>),
                                Call("HessianF", <<U, V, p, 1, 2>>),
                                Call("HessianF", <<U, V, p, 3, 0>>),
                                Call("HessianF", <<U, V, p, 3, 2>>)>>)>>

\* the first Piola-Kirchhoff stress P = F (2 mu L + lambda tr(L) I), scaled
EnergyTerms_P(en, F, L2, trL2) ==
    Call("mat2multiply", <<F,
        <<Add(Mul(Mul(2, en.lameMu), L2[1]), Mul(1, Mul(en.lameLambda, trL2))),
          Add(Mul(Mul(2, en.lameMu), L2[2]), Mul(0, Mul(en.lameLambda, trL2))),
          Add(Mul(Mul(2, en.lameMu), L2[3]), Mul(0, Mul(en.lameLambda, trL2))),
          Add(Mul(Mul(2, en.lameMu), L2[4]), Mul(1, Mul(en.lameLambda, trL2)))>>>>)

\* the energy density mu |L|^2 + lambda tr(L)^2 / 2, scaled
EnergyTerms_density(en, L2, trL2) ==
    Add(Mul(en.lameMu, Call("SumSquares", <<L2>>)),
        Div(Mul(en.lameLambda, Mul(trL2, trL2)), 2))

\* computeEnergyTerms once F, L and the shape gradient are known
EnergyTerms_L(w, e, projectionMode, trustRegionRho, F, d, L2, g) ==
    Call("EnergyTerms_store", <<w, e, Mul(d, d), Mul(Mul(d, d), Mul(d, d)),
        Call("EnergyTerms_density", <<w.energy[e], L2, Add(L2[1], L2[4])>>),
        Call("transformMat2",
             <<g, Call("EnergyTerms_P", <<w.energy[e], F, L2, Add(L2[1], L2[4])>>)>>),
        Call("StrainOf", <<L2, d>>),
        Call("EnergyTerms_H", <<g, SVD2x2(F).U, SVD2x2(F).V,
            project(Call("computeHessianEigenvalues",
                         <<w.energy[e], SVD2x2(F).S, d>>),
                    projectionMode, trustRegionRho)>>)>>)

\* computeEnergyTerms once F is known: the inverted element is handled apart
EnergyTerms_F(w, e, body, projectionMode, trustRegionRho, F, d) ==
    IF Le(mat2det(F), 0)
    THEN Call("handleInvertedElement", <<w, e, body>>)
    ELSE Call("EnergyTerms_L", <<w, e, projectionMode, trustRegionRho, F, d,
                                 Call("L2num_of", <<F, d>>),
                                 Call("gradNi", <<w.energy[e], body>>)>>)

\* StVKEnergy.computeEnergyTerms
computeEnergyTerms(w, e, body, projectionMode, trustRegionRho) ==
    Call("EnergyTerms_F", <<w, e, body, projectionMode, trustRegionRho,
                            Call("Fnum", <<w, w.energy[e]>>),
                            Call("DmDet", <<w.energy[e]>>)>>)

\* ------------------------------------------------------------------------
\* Manifold: box-box collision
\* ------------------------------------------------------------------------
\* COLLISION_MARGIN = 0.0005 is below the lattice resolution
COLLISION_MARGIN == 0
\* STICK_THRESHOLD = 0.01, in hundredths
STICK_THRESHOLD == 1
NO_EDGE == 0
EDGE1 == 1
EDGE2 == 2
EDGE3 == 3
EDGE4 == 4
FACE_A_X == 1
FACE_A_Y == 2
FACE_B_X == 3
FACE_B_Y == 4

\* createDefaultContactDetails
DefaultContactDetails ==
    [inEdge1 |-> NO_EDGE, outEdge1 |-> NO_EDGE, inEdge2 |-> NO_EDGE,
     outEdge2 |-> NO_EDGE, ID |-> 0]

\* Flip
Flip(cd) ==
    [cd EXCEPT !.inEdge1 = cd.inEdge2, !.inEdge2 = cd.inEdge1,
               !.outEdge1 = cd.outEdge2, !.outEdge2 = cd.outEdge1]

\* the plausible fault of a pack that keeps the two tags of the clip only
packFeatureID_ClipTags(cd) == cd.inEdge1 + 256 * cd.outEdge1

\* packFeatureID: four 8-bit tags in one integer
packFeatureID(cd) ==
    cd.inEdge1 + 256 * cd.outEdge1 + 65536 * cd.inEdge2 + 16777216 * cd.outEdge2

\* ClipSegmentToLine, given the distances d0, d1 of the two vertices to the
\* line: the vertices written to vOut
ClipSegment(vIn, d0, d1, clipEdge) ==
    LET lerp(a, b) == Add(a, ProdOver(d0, Sub(b, a), Sub(d0, d1)))
        cd0 == IF Gt(d0, 0)
               THEN [vIn[1].cd EXCEPT !.inEdge1 = clipEdge, !.inEdge2 = NO_EDGE]
               ELSE [vIn[2].cd EXCEPT !.outEdge1 = clipEdge, !.outEdge2 = NO_EDGE]
    IN  (IF Le(d0, 0) THEN <<vIn[1]>> ELSE <<>>)
        \o (IF Le(d1, 0) THEN <<vIn[2]>> ELSE <<>>)
        \o (IF Lt(Mul(d0, d1), 0)
            THEN <<[v |-> <<lerp(vIn[1].v[1], vIn[2].v[1]),
                            lerp(vIn[1].v[2], vIn[2].v[2])>>,
                    cd |-> [cd0 EXCEPT !.ID = packFeatureID(cd0)]]>>
            ELSE <<>>)

\* ClipSegmentToLine
ClipSegmentToLine(vIn, normal, offset, clipEdge) ==
    Call("ClipSegment",
         <<vIn, Sub(vec2dot(normal, vIn[1].v), offset),
           Sub(vec2dot(normal, vIn[2].v), offset), clipEdge>>)

\* ComputeIncidentEdge
ComputeIncidentEdge(h, pos, rot, normal) ==
    LET n == vec2scale(Call("transformMat2", <<normal, mat2transpose(rot)>>), -1)
        absN == <<Abs(n[1]), Abs(n[2])>>
        edge(x, y, inE, outE) ==
            [v |-> vec2add(pos, Call("transformMat2", <<<<x, y>>, rot>>)),
             cd |-> [DefaultContactDetails EXCEPT !.inEdge2 = inE, !.outEdge2 = outE]]
    IN  IF Gt(absN[1], absN[2])
        THEN IF Gt(n[1], 0)
             THEN <<edge(h[1], Neg(h[2]), EDGE3, EDGE4), edge(h[1], h[2], EDGE4, EDGE1)>>
             ELSE <<edge(Neg(h[1]), h[2], EDGE1, EDGE2),
                    edge(Neg(h[1]), Neg(h[2]), EDGE2, EDGE3)>>
        ELSE IF Gt(n[2], 0)
             THEN <<edge(h[1], h[2], EDGE4, EDGE1), edge(Neg(h[1]), h[2], EDGE1, EDGE2)>>
             ELSE <<edge(Neg(h[1]), Neg(h[2]), EDGE2, EDGE3),
                    edge(h[1], Neg(h[2]), EDGE3, EDGE4)>>

\* makeEmptyContact
EmptyContact ==
    [details |-> DefaultContactDetails, pA |-> Vec2Zero, pB |-> Vec2Zero,
     n |-> Vec2Zero, JacNormA |-> Vec3Zero, JacNormB |-> Vec3Zero,
     JacTangA |-> Vec3Zero, JacTangB |-> Vec3Zero, C0 |-> Vec2Zero,
     stick |-> FALSE]

\* the separating-axis test of Manifold.collide.  An axis is a record
\* [bestAxis, separation, n]; PreferAxis is one of the three statements
\* "if (face > 0.95 * separation + 0.01 * h) { bestAxis = ...; }", with the
\* relative and absolute tolerances in hundredths
SignedNormal(d, x, y) == IF Gt(d, 0) THEN <<x, y>> ELSE <<Neg(x), Neg(y)>>
PreferAxis(best, tag, face, h, d, x, y) ==
    IF Gt(Mul(100, face), Add(Mul(95, best.separation), h))
    THEN [bestAxis |-> tag, separation |-> face, n |-> SignedNormal(d, x, y)]
    ELSE best

\* the choice among the four faces, given the face separations
BestAxis_choose(RA, RB, hA, hB, dA, dB, faceA, faceB) ==
    [axis |-> PreferAxis(
                  PreferAxis(
                      PreferAxis([bestAxis |-> FACE_A_X, separation |-> faceA[1],
                                  n |-> SignedNormal(dA[1], RA[1], RA[2])],
                                 FACE_A_Y, faceA[2], hA[2], dA[2], RA[3], RA[4]),
                      FACE_B_X, faceB[1], hB[1], dB[1], RB[1], RB[2]),
                  FACE_B_Y, faceB[2], hB[2], dB[2], RB[3], RB[4]),
     separated |-> Gt(faceA[1], 0) \/ Gt(faceA[2], 0)
                   \/ Gt(faceB[1], 0) \/ Gt(faceB[2], 0)]

\* the face separations faceA, faceB from the relative position and rotation
BestAxis_faces(RA, RB, hA, hB, dA, dB, absC) ==
    Call("BestAxis_choose",
         <<RA, RB, hA, hB, dA, dB,
           vec2sub(<<Abs(dA[1]), Abs(dA[2])>>,
                   vec2add(hA, Call("transformMat2", <<hB, absC>>))),
           vec2sub(<<Abs(dB[1]), Abs(dB[2])>>,
                   vec2add(hB, Call("transformMat2", <<hA, mat2transpose(absC)>>)))>>)

BestAxis_frames(RA, RB, hA, hB, diff) ==
    LET Cm == Call("mat2multiply", <<mat2transpose(RA), RB>>)
    IN  Call("BestAxis_faces",
             <<RA, RB, hA, hB,
               Call("transformMat2", <<diff, mat2transpose(RA)>>),
               Call("transformMat2", <<diff, mat2transpose(RB)>>),
               <<Abs(Cm[1]), Abs(Cm[2]), Abs(Cm[3]), Abs(Cm[4])>>>>)

\* the reference face chosen by the separating-axis test of Manifold.collide:
\* [bestAxis, separation, n, separated]
BestAxis(boxA, boxB) ==
    LET r == Call("BestAxis_frames",
                  <<rotationMatrix(boxA.position[3]), rotationMatrix(boxB.position[3]),
                    <<Div(boxA.width, 2), Div(boxA.height, 2)>>,
                    <<Div(boxB.width, 2), Div(boxB.height, 2)>>,
                    vec2sub(<<boxB.position[1], boxB.position[2]>>,
                            <<boxA.position[1], boxA.position[2]>>)>>)
    IN  [bestAxis |-> r.axis.bestAxis, separation |-> r.axis.separation,
         n |-> r.axis.n, separated |-> r.separated]

\* Manifold.collide, the contact made of a clipped vertex cv that lies behind
\* the reference face; c is the record of the reference frame
MakeContact(c, front, cv) ==
    LET sep == Sub(vec2dot(c.frontNormal, cv.v), front)
        slidPoint == vec2sub(cv.v, vec2scale(c.frontNormal, sep))
        det == IF c.isBFace THEN Flip(cv.cd) ELSE cv.cd
    IN  [EmptyContact EXCEPT
            !.n = vec2scale(c.n, -1),
            !.pA = Call("transformMat2",
                        <<vec2sub(IF c.isBFace THEN cv.v ELSE slidPoint, c.posA),
                          mat2transpose(c.rotA)>>),
            !.pB = Call("transformMat2",
                        <<vec2sub(IF c.isBFace THEN slidPoint ELSE cv.v, c.posB),
                          mat2transpose(c.rotB)>>),
            !.details = [det EXCEPT !.ID = packFeatureID(det)]]

\* the loop over the two clipped vertices, after the second clip
collide_contacts(c, front, cp2) ==
    LET touching(cv) == Le(Sub(vec2dot(c.frontNormal, cv.v), front), 0)
    IN  IF Len(cp2) < 2 THEN <<>>
        ELSE (IF touching(cp2[1])
              THEN <<Call("MakeContact", <<c, front, cp2[1]>>)>> ELSE <<>>)
             \o (IF touching(cp2[2])
                 THEN <<Call("MakeContact", <<c, front, cp2[2]>>)>> ELSE <<>>)

\* the second clip, against the positive side plane
collide_clip(c, front, sideNormal, posSide, cp1) ==
    IF Len(cp1) < 2 THEN <<>>
    ELSE Call("collide_contacts",
              <<c, front,
                Call("ClipSegmentToLine",
                     <<cp1, sideNormal, posSide, IF c.isX THEN EDGE1 ELSE EDGE4>>)>>)

\* the reference face, the incident edge and the first clip
collide_face(c) ==
    LET sideNormal == IF c.isX THEN <<c.refRot[3], c.refRot[4]>>
                      ELSE <<c.refRot[1], c.refRot[2]>>
        side == vec2dot(c.refPos, sideNormal)
        sideH == IF c.isX THEN c.refH[2] ELSE c.refH[1]
        incidentEdge ==
            IF c.isBFace
            THEN Call("ComputeIncidentEdge", <<c.hA, c.posA, c.rotA, c.frontNormal>>)
            ELSE Call("ComputeIncidentEdge", <<c.hB, c.posB, c.rotB, c.frontNormal>>)
    IN  Call("collide_clip",
             <<c,
               Add(vec2dot(c.refPos, c.frontNormal),
                   IF c.isX THEN c.refH[1] ELSE c.refH[2]),
               sideNormal,
               Add(side, sideH),
               Call("ClipSegmentToLine",
                    <<incidentEdge, vec2scale(sideNormal, -1), Add(Neg(side), sideH),
                      IF c.isX THEN EDGE3 ELSE EDGE2>>)>>)

collide_axis(axis, rotA, rotB, hA, hB, posA, posB) ==
    LET isBFace == axis.bestAxis = FACE_B_X \/ axis.bestAxis = FACE_B_Y
        isX == axis.bestAxis = FACE_A_X \/ axis.bestAxis = FACE_B_X
    IN  IF axis.separated THEN <<>>
        ELSE Call("collide_face",
                  <<[n |-> axis.n, isBFace |-> isBFace, isX |-> isX,
                     rotA |-> rotA, rotB |-> rotB, hA |-> hA, hB |-> hB,
                     posA |-> posA, posB |-> posB,
                     frontNormal |-> IF isBFace THEN vec2scale(axis.n, -1) ELSE axis.n,
                     refPos |-> IF isBFace THEN posB ELSE posA,
                     refRot |-> IF isBFace THEN rotB ELSE rotA,
                     refH |-> IF isBFace THEN hB ELSE hA]>>)

\* Manifold.collide: the contacts array it leaves
collide(boxA, boxB) ==
    Call("collide_axis",
         <<Call("BestAxis", <<boxA, boxB>>),
           rotationMatrix(boxA.position[3]), rotationMatrix(boxB.position[3]),
           <<Div(boxA.width, 2), Div(boxA.height, 2)>>,
           <<Div(boxB.width, 2), Div(boxB.height, 2)>>,
           <<boxA.position[1], boxA.position[2]>>,
           <<boxB.position[1], boxB.position[2]>>>>)

\* the array of at most two contacts: its first n elements among a, b
UpTo2(n, a, b) == IF n = 0 THEN <<>> ELSE IF n = 1 THEN <<a>> ELSE <<a, b>>

\* Array.prototype.findIndex(oc => oc.details.ID === id), 1-based; 0 if none
\* the plausible fault of a merge that never finds the old contact
FindContact_None(cs, id, i) == 0

\* this.oldContacts.findIndex(oc => oc.details.ID === id), 0 for -1
RECURSIVE FindContact(_, _, _)
FindContact(cs, id, i) ==
    IF i > Len(cs) THEN 0
    ELSE IF cs[i].details.ID = id THEN i
    ELSE FindContact(cs, id, i + 1)

\* Manifold.initialize: the force object after the call
Manifold_initialize(w, f) ==
    LET fo == w.force[f]
        boxA == w.rigidBox[fo.bodyA]
        boxB == w.rigidBox[fo.bodyB]
        old == fo.contacts
        fresh == Call("collide", <<boxA, boxB>>)
        found(i) == FindContact(old, fresh[i].details.ID, 1)
        row(oldRows, k) ==
            LET i == (k + 1) \div 2
            IN  IF i > Len(fresh) THEN oldRows[k]
                ELSE IF found(i) = 0 THEN 0
                ELSE oldRows[2 * (found(i) - 1) + 2 - (k % 2)]
        merged(i) ==
            LET c == fresh[i]
                j == found(i)
                stick == j # 0 /\ old[j].stick
                pA == IF stick THEN old[j].pA ELSE c.pA
                pB == IF stick THEN old[j].pB ELSE c.pB
                n == c.n
                t == <<n[2], Neg(n[1])>>
                basis == <<n[1], n[2], t[1], t[2]>>
                rotatedAW == Call("transformMat2", <<pA, rotationMatrix(boxA.position[3])>>)
                rotatedBW == Call("transformMat2", <<pB, rotationMatrix(boxB.position[3])>>)
                rDiff == vec2sub(
                    vec2add(<<boxA.position[1], boxA.position[2]>>, rotatedAW),
                    vec2add(<<boxB.position[1], boxB.position[2]>>, rotatedBW))
            IN  [c EXCEPT
                    !.stick = stick, !.pA = pA, !.pB = pB,
                    !.JacNormA = <<basis[1], basis[3], cross2(rotatedAW, n)>>,
                    !.JacNormB = <<Neg(basis[1]), Neg(basis[3]), Neg(cross2(rotatedBW, n))>>,
                    !.JacTangA = <<basis[2], basis[4], cross2(rotatedAW, t)>>,
                    !.JacTangB = <<Neg(basis[2]), Neg(basis[4]), Neg(cross2(rotatedBW, t))>>,
                    !.C0 = vec2add(Call("transformMat2", <<rDiff, basis>>), <<COLLISION_MARGIN, 0>>)]
    IN  [fo EXCEPT
            !.friction = Sqrt(Mul(boxA.friction, boxB.friction)),
            !.oldContacts = old,
            !.contacts = UpTo2(Len(fresh), merged(1), merged(2)),
            !.numContacts = Len(fresh),
            !.penalty = <<row(fo.penalty, 1), row(fo.penalty, 2),
                          row(fo.penalty, 3), row(fo.penalty, 4)>>,
            !.lambda = <<row(fo.lambda, 1), row(fo.lambda, 2),
                         row(fo.lambda, 3), row(fo.lambda, 4)>>]

\* Joint.initialize: the force object after the call
Joint_initialize(w, f) ==
    LET fo == w.force[f]
        posA == transform2D(IF fo.bodyA # 0 THEN w.rigidBox[fo.bodyA].position
                            ELSE Vec3Zero, fo.rA)
        posB == transform2D(w.rigidBox[fo.bodyB].position, fo.rB)
        angleA == IF fo.bodyA # 0 THEN w.rigidBox[fo.bodyA].position[3] ELSE 0
        angleB == w.rigidBox[fo.bodyB].position[3]
    IN  [fo EXCEPT !.C0 = <<Sub(posA[1], posB[1]), Sub(posA[2], posB[2]),
                            Mul(Sub(Sub(angleA, angleB), fo.restAngle), fo.torqueArm)>>]

\* force.initialize(): the world after the call
initialize(w, f) ==
    [w EXCEPT !.force[f] = IF w.force[f].kind = "Joint"
                           THEN Call("Joint_initialize", <<w, f>>)
                           ELSE Call("Manifold_initialize", <<w, f>>)]

\* the value force.initialize() returns, read after the call
isUsed(fo) ==
    IF fo.kind = "Joint"
    THEN fo.stiffness[1] # 0 \/ fo.stiffness[2] # 0 \/ fo.stiffness[3] # 0
    ELSE Len(fo.contacts) > 0

\* ------------------------------------------------------------------------
\* Solver: fields, parameter setters, membership of the three lists
\* ------------------------------------------------------------------------
\* the ghost record of what a call of step did; disabled is the set of
\* forces on which disable() has been called
NoTrace ==
    [ran |-> FALSE, completed |-> FALSE, aborted |-> FALSE,
     primalSolves |-> 0, dualUpdates |-> 0, velocityExtractions |-> 0,
     nanDetected |-> FALSE, workAfterNaN |-> 0,
     badPivot |-> FALSE, dxAppliedOnBadPivot |-> FALSE,
     disabled |-> {}, disabledRowsVisited |-> 0, disabledContribution |-> FALSE,
     warnings |-> {}, threw |-> FALSE, currentAlpha |-> 0, evaluations |-> 0,
     primalBlocks |-> 0, duals |-> <<>>,
     unused |-> {}, unusedKinds |-> {}, touched |-> {},
     accelWeights |-> {}, merges |-> {}]

\* the field initialisers of class Solver (dt = 0, so 1 / dt is infinite)
Solver_new ==
    [invDt |-> Inf, gravity |-> DefaultGravity, iterations |-> DefaultIterations,
     alpha |-> DefaultAlpha, beta |-> DefaultBeta, gamma |-> DefaultGamma,
     betaEnergy |-> DefaultBetaEnergy, useEnergyRamp |-> FALSE,
     postStabilization |-> FALSE,
     bodies |-> <<>>, forces |-> <<>>, energies |-> <<>>,
     contactsToRender |-> <<>>, contactLinesToRender |-> <<>>,
     urgentStop |-> FALSE, paused |-> FALSE, projectionMode |-> ABSOLUTE,
     prevTotalElasticEnergy |-> 0, trustRegionRho |-> 0]

\* the plausible fault of a setDefaults that also forgets the latched stop
setDefaults_ClearsStop(w) ==
    [w EXCEPT !.solver = [@ EXCEPT
        !.invDt = InvDt, !.gravity = DefaultGravity,
        !.iterations = DefaultIterations, !.beta = DefaultBeta,
        !.betaEnergy = DefaultBetaEnergy, !.alpha = DefaultAlpha,
        !.gamma = DefaultGamma, !.projectionMode = ABSOLUTE,
        !.postStabilization = TRUE, !.urgentStop = FALSE]]

\* Solver.setDefaults
setDefaults(w) ==
    [w EXCEPT !.solver = [@ EXCEPT
        !.invDt = InvDt, !.gravity = DefaultGravity,
        !.iterations = DefaultIterations, !.beta = DefaultBeta,
        !.betaEnergy = DefaultBetaEnergy, !.alpha = DefaultAlpha,
        !.gamma = DefaultGamma, !.projectionMode = ABSOLUTE,
        !.postStabilization = TRUE]]

\* Solver.Clear
Clear(w) ==
    LET forcesToDestroy == w.solver.forces
        bodiesToDestroy == w.solver.bodies
        energiesToDestroy == w.solver.energies
        w1 == [w EXCEPT !.solver = [@ EXCEPT
                  !.forces = <<>>, !.bodies = <<>>, !.energies = <<>>,
                  !.contactsToRender = <<>>]]
        w2 == DestroyForces(w1, forcesToDestroy)
        w3 == DestroyEnergies(w2, energiesToDestroy)
        w4 == DestroyBodies(w3, bodiesToDestroy)
    IN  [w4 EXCEPT !.solver = [@ EXCEPT
            !.invDt = InvDt, !.postStabilization = TRUE,
            !.prevTotalElasticEnergy = 0, !.trustRegionRho = 0,
            !.urgentStop = FALSE]]

\* Solver.setGravity
setGravity(w, newGravity) ==
    [w EXCEPT !.solver.gravity =
        IF vec2length(newGravity) = 0 THEN TinyGravity ELSE newGravity]

\* GameManager.modifyIterations
modifyIterations(w, iterations) ==
    [w EXCEPT !.solver.iterations = IF iterations < 1 THEN 1 ELSE iterations]

\* Solver.addRigidBox
addRigidBox(w, box) ==
    IF indexOf(w.solver.bodies, box) = 0
    THEN [w EXCEPT !.solver.bodies = Append(@, box)]
    ELSE w

\* the loop of removeRigidBox over a copy of the box's forces
RECURSIVE RemoveBoxForces(_, _)
RemoveBoxForces(w, fs) ==
    IF fs = <<>> THEN w
    ELSE RemoveBoxForces(
            Force_destroy([w EXCEPT !.solver.forces = removeOne(@, Head(fs))],
                          Head(fs)),
            Tail(fs))

\* Solver.removeRigidBox
removeRigidBox(w, box) ==
    LET w1 == RemoveBoxForces(w, w.rigidBox[box].forces)
        w2 == [w1 EXCEPT !.solver.bodies = removeOne(@, box)]
    IN  RigidBox_destroy(w2, box)

\* Solver.addForce
addForce(w, f) ==
    IF indexOf(w.solver.forces, f) = 0
    THEN [w EXCEPT !.solver.forces = Append(@, f)]
    ELSE w

\* Solver.addEnergy
addEnergy(w, e) ==
    IF indexOf(w.solver.energies, e) = 0
    THEN [w EXCEPT !.solver.energies = Append(@, e)]
    ELSE w

\* Solver.removeForce
removeForce(w, f) ==
    Force_destroy([w EXCEPT !.solver.forces = removeOne(@, f)], f)

\* Solver.removeEnergy
removeEnergy(w, e) ==
    Energy_destroy([w EXCEPT !.solver.energies = removeOne(@, e)], e)

\* ------------------------------------------------------------------------
\* Allocation.  new takes the smallest identifier whose slot is empty; a
\* slot is emptied when nothing reachable from the solver refers to it.
\* ------------------------------------------------------------------------
FreeBodyIds(w) == {b \in BodyIds : ~w.rigidBox[b].made}
FreeForceIds(w) == {f \in ForceIds : w.force[f].kind = "none"}
FreeEnergyIds(w) == {e \in EnergyIds : w.energy[e].kind = "none"}
SmallestOf(S) == CHOOSE x \in S : \A y \in S : x <= y

\* one round of the reachability of objects from the solver's lists
Reach(w, r) ==
    [b |-> r.b \cup UNION {Range(w.force[f].bodies) : f \in r.f}
               \cup UNION {Range(w.energy[e].bodies) : e \in r.e},
     f |-> r.f \cup UNION {Range(w.rigidBox[b].forces) : b \in r.b},
     e |-> r.e \cup UNION {Range(w.rigidBox[b].energies) : b \in r.b}]

RECURSIVE Reachable(_, _)
Reachable(w, r) == IF Reach(w, r) = r THEN r ELSE Reachable(w, Reach(w, r))

\* the first n slots of a heap, those outside keep emptied
RECURSIVE Keep(_, _, _, _)
Keep(heap, keep, none, n) ==
    IF n = 0 THEN <<>>
    ELSE Append(Keep(heap, keep, none, n - 1), IF n \in keep THEN heap[n] ELSE none)

\* garbage collection: the slots of unreachable objects become empty
Collect(w) ==
    LET r == Reachable(w, [b |-> Range(w.solver.bodies),
                           f |-> Range(w.solver.forces),
                           e |-> Range(w.solver.energies)])
    IN  [w EXCEPT
            !.rigidBox = Keep(@, r.b, NoBody, Cardinality(BodyIds)),
            !.force = Keep(@, r.f, NoForce, Cardinality(ForceIds)),
            !.energy = Keep(@, r.e, NoEnergy, Cardinality(EnergyIds)),
            !.trace.disabled = @ \cap r.f]

\* ------------------------------------------------------------------------
\* Constraint values and derivatives of the two kinds of force
\* ------------------------------------------------------------------------
\* x * (h / 100) for a parameter h kept in hundredths
Hundredths(x, h) ==
    IF IsFinite(x) /\ IsFinite(h) THEN Call("MulDiv", <<x, h, 100>>) ELSE Div(Mul(x, h), 100)

\* Joint.computeConstraints: the array C after the call
Joint_C(w, f, alpha) ==
    LET fo == w.force[f]
        posA == transform2D(IF fo.bodyA # 0 THEN w.rigidBox[fo.bodyA].position
                            ELSE Vec3Zero, fo.rA)
        posB == transform2D(w.rigidBox[fo.bodyB].position, fo.rB)
        angleA == IF fo.bodyA # 0 THEN w.rigidBox[fo.bodyA].position[3] ELSE 0
        Cn == <<Sub(posA[1], posB[1]), Sub(posA[2], posB[2]),
                Mul(Sub(Sub(angleA, w.rigidBox[fo.bodyB].position[3]), fo.restAngle),
                    fo.torqueArm)>>
        Ci(i) == IF fo.stiffness[i] = Inf
                 THEN Sub(Cn[i], Hundredths(fo.C0[i], alpha))
                 ELSE Cn[i]
    IN  <<Ci(1), Ci(2), Ci(3), fo.C[4]>>

\* Manifold.computeConstraints: the force object after the call
Manifold_computeConstraints(w, f, alpha) ==
    LET fo == w.force[f]
        diffpA == vec3sub(w.rigidBox[fo.bodyA].position, w.rigidBox[fo.bodyA].lastPosition)
        diffpB == vec3sub(w.rigidBox[fo.bodyB].position, w.rigidBox[fo.bodyB].lastPosition)
        n == Len(fo.contacts)
        ct(k) == fo.contacts[(k + 1) \div 2]
        alphaC0(k) == <<Hundredths(ct(k).C0[1], 100 - alpha),
                        Hundredths(ct(k).C0[2], 100 - alpha)>>
        bounds(k) == Hundredths(Abs(fo.lambda[2 * ((k + 1) \div 2) - 1]), fo.friction)
        isNormal(k) == k % 2 = 1
        Ck(k) ==
            IF k > 2 * n THEN fo.C[k]
            ELSE IF isNormal(k)
            THEN Add(Add(alphaC0(k)[1], vec3dot(ct(k).JacNormA, diffpA)),
                     vec3dot(ct(k).JacNormB, diffpB))
            ELSE Add(Add(alphaC0(k)[2], vec3dot(ct(k).JacTangA, diffpA)),
                     vec3dot(ct(k).JacTangB, diffpB))
        fmaxk(k) == IF k > 2 * n \/ isNormal(k) THEN fo.fmax[k] ELSE bounds(k)
        fmink(k) == IF k > 2 * n \/ isNormal(k) THEN fo.fmin[k] ELSE Neg(bounds(k))
        sticking(i) ==
            [fo.contacts[i] EXCEPT
                !.stick = Lt(Abs(fo.lambda[2 * i]), bounds(2 * i))
                          /\ Lt(Abs(fo.contacts[i].C0[2]), STICK_THRESHOLD)]
    IN  [fo EXCEPT
            !.C = <<Ck(1), Ck(2), Ck(3), Ck(4)>>,
            !.fmax = <<fmaxk(1), fmaxk(2), fmaxk(3), fmaxk(4)>>,
            !.fmin = <<fmink(1), fmink(2), fmink(3), fmink(4)>>,
            !.contacts = UpTo2(n, sticking(1), sticking(2))]

\* force.computeConstraints(alpha): the world after the call
computeConstraints(w, f, alpha) ==
    [w EXCEPT !.force[f] =
        IF @.kind = "Joint" THEN [@ EXCEPT !.C = Call("Joint_C", <<w, f, alpha>>)]
        ELSE Call("Manifold_computeConstraints", <<w, f, alpha>>)]

\* force.computeDerivatives(body): the row J[j] it leaves, j from 1
Jrow(w, f, body, j) ==
    LET fo == w.force[f]
        rotatedRA == rotate2D(fo.rA, w.rigidBox[body].position[3])
        rotatedRB == rotate2D(fo.rB, w.rigidBox[body].position[3])
        c == fo.contacts[(j + 1) \div 2]
    IN  IF fo.kind = "Joint"
        THEN IF body = fo.bodyA
             THEN CASE j = 1 -> <<1, 0, Neg(rotatedRA[2])>>
                    [] j = 2 -> <<0, 1, rotatedRA[1]>>
                    [] OTHER -> <<0, 0, fo.torqueArm>>
             ELSE CASE j = 1 -> <<-1, 0, rotatedRB[2]>>
                    [] j = 2 -> <<0, -1, Neg(rotatedRB[1])>>
                    [] OTHER -> <<0, 0, Neg(fo.torqueArm)>>
        ELSE IF body = fo.bodyA
             THEN (IF j % 2 = 1 THEN c.JacNormA ELSE c.JacTangA)
             ELSE (IF j % 2 = 1 THEN c.JacNormB ELSE c.JacTangB)

\* the matrix H[j] that computeDerivatives leaves: a Joint writes only its
\* last element; a Manifold keeps the identity of glm.mat3.create()
Hrow(w, f, body, j) ==
    LET fo == w.force[f]
        rotatedRA == rotate2D(fo.rA, w.rigidBox[body].position[3])
        rotatedRB == rotate2D(fo.rB, w.rigidBox[body].position[3])
        last(x) == <<0, 0, 0, 0, 0, 0, 0, 0, x>>
    IN  IF fo.kind = "Joint"
        THEN IF body = fo.bodyA
             THEN CASE j = 1 -> last(Neg(rotatedRA[1]))
                    [] j = 2 -> last(Neg(rotatedRA[2]))
                    [] OTHER -> last(0)
             ELSE CASE j = 1 -> last(rotatedRB[1])
                    [] j = 2 -> last(rotatedRB[2])
                    [] OTHER -> last(0)
        ELSE mat3diag(1, 1, 1)

\* force.getContactRenders()
getContactRenders(w, f) ==
    LET fo == w.force[f]
        posA == IF fo.bodyA # 0 THEN w.rigidBox[fo.bodyA].position ELSE Vec3Zero
        posB == w.rigidBox[fo.bodyB].position
        pair(i) == <<vec2add(<<posA[1], posA[2]>>,
                             Call("transformMat2", <<fo.contacts[i].pA, rotationMatrix(posA[3])>>)),
                     vec2add(<<posB[1], posB[2]>>,
                             Call("transformMat2", <<fo.contacts[i].pB, rotationMatrix(posB[3])>>))>>
    IN  IF fo.kind = "Joint"
        THEN <<transform2D(posA, fo.rA), transform2D(posB, fo.rB)>>
        ELSE IF fo.numContacts = 0 THEN <<>>
        ELSE IF fo.numContacts = 1 THEN pair(1)
        ELSE pair(1) \o pair(2)

\* force.getContactLines(): one line per Joint, none for a Manifold
getContactLines(w, f) ==
    LET fo == w.force[f]
        posA == IF fo.bodyA # 0 THEN w.rigidBox[fo.bodyA].position ELSE Vec3Zero
    IN  IF fo.kind = "Joint"
        THEN <<<<transform2D(posA, fo.rA),
                 transform2D(w.rigidBox[fo.bodyB].position, fo.rB)>>>>
        ELSE <<>>

\* ------------------------------------------------------------------------
\* Solver.step, phase by phase
\* ------------------------------------------------------------------------
\* gameManager.logWarn(msg), recorded in the trace
logWarn(w, msg) == [w EXCEPT !.trace.warnings = @ \cup {msg}]

\* the detection loop over the pairs (i, j), i < j, of the body list
RECURSIVE Broadphase(_, _, _)
Broadphase(w, i, j) ==
    IF i > Len(w.solver.bodies) THEN w
    ELSE IF j > Len(w.solver.bodies) THEN Call("Broadphase", <<w, i + 1, i + 2>>)
    ELSE LET bodyA == w.solver.bodies[i]
             bodyB == w.solver.bodies[j]
             pA == w.rigidBox[bodyA].position
             pB == w.rigidBox[bodyB].position
             dp == vec2sub(<<pA[1], pA[2]>>, <<pB[1], pB[2]>>)
             r == Add(w.rigidBox[bodyA].radius, w.rigidBox[bodyB].radius)
             newManifold == SmallestOf(FreeForceIds(w))
         IN  IF Le(vec2dot(dp, dp), Mul(r, r)) /\ ~isConstrainedTo(w, bodyA, bodyB)
             THEN Call("Broadphase", <<
                      [Manifold_new(w, newManifold, bodyA, bodyB)
                          EXCEPT !.solver.forces = Append(@, newManifold)],
                      i, j + 1>>)
             ELSE Call("Broadphase", <<w, i, j + 1>>)

\* the plausible fault of a warm start that forgets the lower clamp
ClampPenalty_NoLower(x) == IF Gt(x, PENALTY_MAX) THEN PENALTY_MAX ELSE x

\* the clamp of the warm start: two ifs, so a NaN passes through
ClampPenalty(x) ==
    IF Gt(IF Lt(x, PENALTY_MIN) THEN PENALTY_MIN ELSE x, PENALTY_MAX)
    THEN PENALTY_MAX
    ELSE IF Lt(x, PENALTY_MIN) THEN PENALTY_MIN ELSE x

\* the warm start of row j of a force
WarmStartRow(w, fo, j) ==
    LET newPenalty == ClampPenalty(Hundredths(fo.penalty[j], w.solver.gamma))
    IN  [fo EXCEPT
            !.lambda[j] = IF w.solver.postStabilization THEN @
                          ELSE Hundredths(Hundredths(@, w.solver.alpha), w.solver.gamma),
            !.penalty[j] = Min(newPenalty, fo.stiffness[j])]

RECURSIVE WarmStartRows(_, _, _)
WarmStartRows(w, fo, j) ==
    IF j > getRows(fo) THEN fo ELSE WarmStartRows(w, Call("WarmStartRow", <<w, fo, j>>), j + 1)

\* the plausible fault of a removal that forgets force.destroy()
RemoveUnused_SpliceOnly(w1, i, f) == [w1 EXCEPT !.solver.forces = splice(@, i)]

\* this.forces.splice(i, 1); --i; force.destroy()
RemoveUnused(w1, i, f) == Force_destroy([w1 EXCEPT !.solver.forces = splice(@, i)], f)

\* what Manifold.initialize read and what it left: the feature IDs, stick
\* flags, penalties and lambdas of the contacts before and after the call
MergeRecord(before, after) ==
    [oldIDs |-> [j \in 1 .. Len(before.contacts) |-> before.contacts[j].details.ID],
     oldStick |-> [j \in 1 .. Len(before.contacts) |-> before.contacts[j].stick],
     oldPenalty |-> before.penalty, oldLambda |-> before.lambda,
     IDs |-> [i \in 1 .. Len(after.contacts) |-> after.contacts[i].details.ID],
     stick |-> [i \in 1 .. Len(after.contacts) |-> after.contacts[i].stick],
     penalty |-> after.penalty, lambda |-> after.lambda]

\* the initialisation loop of the forces: unused ones are spliced out and
\* destroyed, the others are queued for rendering and warm-started
RECURSIVE InitForces(_, _)
InitForces(w, i) ==
    IF i > Len(w.solver.forces) THEN w
    ELSE LET f == w.solver.forces[i]
             w0 == initialize(w, f)
             w1 == IF w.force[f].kind = "Manifold"
                   THEN [w0 EXCEPT !.trace.merges =
                            @ \cup {MergeRecord(w.force[f], w0.force[f])}]
                   ELSE w0
             w2 == [w1 EXCEPT
                       !.solver.contactsToRender = @ \o Call("getContactRenders", <<w1, f>>),
                       !.solver.contactLinesToRender = @ \o Call("getContactLines", <<w1, f>>)]
         IN  IF ~isUsed(w1.force[f])
             THEN InitForces(
                      RemoveUnused([w1 EXCEPT !.trace.unused = @ \cup {f},
                                             !.trace.unusedKinds = @ \cup {w1.force[f].kind}],
                                   i, f), i)
             ELSE InitForces(
                      [w2 EXCEPT !.force[f] = WarmStartRows(w2, @, 1)], i + 1)

\* the renders and lines of an energy: its three bodies and its three edges
Energy_getContactRenders(w, e) ==
    LET en == w.energy[e]
    IN  <<w.rigidBox[en.bodyA].position, w.rigidBox[en.bodyB].position,
          w.rigidBox[en.bodyC].position>>

Energy_getContactLines(w, e) ==
    LET en == w.energy[e]
        flat(b) == <<w.rigidBox[b].position[1], w.rigidBox[b].position[2], 0>>
    IN  <<<<flat(en.bodyA), flat(en.bodyB)>>, <<flat(en.bodyB), flat(en.bodyC)>>,
          <<flat(en.bodyC), flat(en.bodyA)>>>>

\* the initialisation loop of the energies (initialize() returns true)
RECURSIVE InitEnergies(_, _)
InitEnergies(w, i) ==
    IF i > Len(w.solver.energies) THEN w
    ELSE LET e == w.solver.energies[i]
             newEffective ==
                 Min(Max(ENERGY_STIFFNESS_MIN,
                         Hundredths(w.energy[e].effectiveStiffness, w.solver.gamma)),
                     w.energy[e].targetStiffness)
         IN  InitEnergies(
                 [w EXCEPT
                     !.solver.contactsToRender = @ \o Energy_getContactRenders(w, e),
                     !.solver.contactLinesToRender = @ \o Energy_getContactLines(w, e),
                     !.energy[e].effectiveStiffness = newEffective],
                 i + 1)

\* x * dt
TimesDt(w, x) == Div(x, w.solver.invDt)

\* gravity * (weight * dt * dt), gravity in thousandths, weight in hundredths
GravityTerm(w, g, weight) ==
    LET q == Mul(Mul(w.solver.invDt, w.solver.invDt), 100 * GravityScale)
    IN  IF IsFinite(g) /\ IsFinite(weight) /\ IsFinite(q) /\ q # 0
        THEN Call("MulDiv", <<g, weight, q>>)
        ELSE Div(Mul(g, weight), q)

\* the adaptive warm-start weight of a body, in hundredths
AccelWeight(w, body) ==
    LET rb == w.rigidBox[body]
        acceleration == Mul(Sub(rb.velocity[2], rb.prevVelocity[2]), w.solver.invDt)
        accelExt == Mul(acceleration, Sgn(w.solver.gravity[2]))
        g == Abs(w.solver.gravity[2])
        accelWeight == IF IsFinite(accelExt) /\ g # 0
                       THEN Call("MulDiv", <<accelExt, 100 * GravityScale, g>>)
                       ELSE Div(Mul(accelExt, 100 * GravityScale), g)
    IN  IF Lt(accelWeight, 0) THEN 0
        ELSE IF Gt(accelWeight, 100) THEN 100
        ELSE accelWeight

\* the warm start of one body
WarmStartBody(w, body) ==
    LET rb == w.rigidBox[body]
        v3 == rb.velocity[3]
        rotationVelocity ==
            IF Lt(IF Gt(v3, MaxRotationVelocity) THEN MaxRotationVelocity ELSE v3,
                  -MaxRotationVelocity)
            THEN -MaxRotationVelocity
            ELSE IF Gt(v3, MaxRotationVelocity) THEN MaxRotationVelocity ELSE v3
        velocity == IF rb.staticBody THEN rb.velocity
                    ELSE <<rb.velocity[1], rb.velocity[2], rotationVelocity>>
        vdt == <<TimesDt(w, velocity[1]), TimesDt(w, velocity[2]), TimesDt(w, velocity[3])>>
        g == w.solver.gravity
        gv == <<Call("GravityTerm", <<w, g[1], 100>>), Call("GravityTerm", <<w, g[2], 100>>), 0>>
        w1 == [w EXCEPT !.rigidBox[body].velocity = velocity]
        accelWeight == Call("AccelWeight", <<w1, body>>)
        term3 == <<Call("GravityTerm", <<w, g[1], accelWeight>>),
                   Call("GravityTerm", <<w, g[2], accelWeight>>),
                   Call("GravityTerm", <<w, 0, accelWeight>>)>>
    IN  [w1 EXCEPT
          !.trace.accelWeights = @ \cup {accelWeight},
          !.rigidBox[body] = [@ EXCEPT
            !.inertial = IF rb.mass # 0
                         THEN vec3add(vec3add(rb.position, vdt), gv)
                         ELSE vec3add(rb.position, vdt),
            !.lastPosition = rb.position,
            !.position = vec3add(rb.position, vec3add(vdt, term3))]]

RECURSIVE WarmStartBodies(_, _)
WarmStartBodies(w, i) ==
    IF i > Len(w.solver.bodies) THEN w
    ELSE WarmStartBodies(Call("WarmStartBody", <<w, w.solver.bodies[i]>>), i + 1)

\* the two clamps of a row's force: Math.max with fmin, then Math.min with fmax
ClampLow(x, lo) == IF Lt(x, lo) THEN lo ELSE x
ClampHigh(x, hi) == IF Gt(x, hi) THEN hi ELSE x

\* lambda of a row as the primal and the dual read it: kept for a hard row
RowLambda(fo, j) == IF fo.stiffness[j] = Inf THEN fo.lambda[j] ELSE 0

\* the sums of a row into the system, and the record of a disabled force's row
ForceRow_sum(acc, f, rhsAdd, lhsAdd) ==
    [w |-> [acc.w EXCEPT
               !.trace.disabledRowsVisited =
                   IF f \in acc.w.trace.disabled THEN @ + 1 ELSE @,
               !.trace.disabledContribution =
                   @ \/ (f \in acc.w.trace.disabled
                         /\ (rhsAdd # Vec3Zero \/ lhsAdd # Mat3Zero))],
     lhs |-> Call("mat3add", <<acc.lhs, lhsAdd>>),
     rhs |-> vec3add(acc.rhs, rhsAdd)]

\* rhs += J f and lhs += J J^T penalty + G, G the diagonal of |H columns| |f|
ForceRow_add(acc, f, j, fmag, J, H) ==
    Call("ForceRow_sum", <<acc, f, vec3scale(J, fmag),
        Call("mat3add",
             <<Call("outerMat3D", <<J, vec3scale(J, acc.w.force[f].penalty[j])>>),
               mat3diag(Mul(Call("vec3length", <<<<H[1], H[4], H[7]>>>>), Abs(fmag)),
                        Mul(Call("vec3length", <<<<H[2], H[5], H[8]>>>>), Abs(fmag)),
                        Mul(Call("vec3length", <<<<H[3], H[6], H[9]>>>>), Abs(fmag)))>>)>>)

\* the accumulation of row j of a force into the system of a body
\* (acc.w the world, acc.lhs and acc.rhs the system)
ForceRow(acc, f, body, j) ==
    Call("ForceRow_add", <<acc, f, j,
        ClampHigh(ClampLow(Add(Mul(acc.w.force[f].penalty[j], acc.w.force[f].C[j]),
                               RowLambda(acc.w.force[f], j)),
                           acc.w.force[f].fmin[j]),
                  acc.w.force[f].fmax[j]),
        Call("Jrow", <<acc.w, f, body, j>>),
        Call("Hrow", <<acc.w, f, body, j>>)>>)

RECURSIVE ForceRows(_, _, _, _)
ForceRows(acc, f, body, j) ==
    IF j > getRows(acc.w.force[f]) THEN acc
    ELSE ForceRows(Call("ForceRow", <<acc, f, body, j>>), f, body, j + 1)

\* for (const force of body.forces)
RECURSIVE BodyForces(_, _, _)
BodyForces(acc, body, i) ==
    IF i > Len(acc.w.rigidBox[body].forces) THEN acc
    ELSE LET f == acc.w.rigidBox[body].forces[i]
             w1 == [computeConstraints(acc.w, f, acc.w.trace.currentAlpha)
                      EXCEPT !.trace.evaluations = @ + 1,
                             !.trace.touched = @ \cup {f}]
         IN  BodyForces(ForceRows([acc EXCEPT !.w = w1], f, body, 1), body, i + 1)

\* the plausible fault of a NaN branch that latches the stop but goes on
OnNaNGradient_NoReturn(w) ==
    logWarn([w EXCEPT !.solver.urgentStop = TRUE, !.trace.nanDetected = TRUE],
            "NaN detected in energy gradient")

\* the branch taken on a NaN gradient: latch, warn, return from step
OnNaNGradient(w) ==
    logWarn([w EXCEPT !.solver.urgentStop = TRUE, !.trace.nanDetected = TRUE,
                      !.trace.aborted = TRUE],
            "NaN detected in energy gradient")

\* effectiveStiffness / targetStiffness times x
StiffnessRatio(en, x) == ProdOver(en.effectiveStiffness, x, en.targetStiffness)

\* the ramped gradient and Hessian of an energy, the latter regularised by
\* 0.01 |grad| on its first two diagonal entries
EnergyRow_ramped(acc, w1, en, diagReg) ==
    [w |-> w1,
     lhs |-> Call("mat3add", <<acc.lhs,
                 <<Add(StiffnessRatio(en, en.hess_E[1][1]), diagReg),
                   StiffnessRatio(en, en.hess_E[1][2]),
                   StiffnessRatio(en, en.hess_E[1][3]),
                   StiffnessRatio(en, en.hess_E[1][4]),
                   Add(StiffnessRatio(en, en.hess_E[1][5]), diagReg),
                   StiffnessRatio(en, en.hess_E[1][6]),
                   StiffnessRatio(en, en.hess_E[1][7]),
                   StiffnessRatio(en, en.hess_E[1][8]),
                   StiffnessRatio(en, en.hess_E[1][9])>>>>),
     rhs |-> vec3add(acc.rhs, <<StiffnessRatio(en, en.grad_E[1][1]),
                                StiffnessRatio(en, en.grad_E[1][2]),
                                StiffnessRatio(en, en.grad_E[1][3])>>)]

\* the row of an energy unless the NaN branch returned from step
EnergyRow_nan(acc, w1, e, mag) ==
    IF w1.trace.aborted THEN [acc EXCEPT !.w = w1]
    ELSE IF w1.solver.useEnergyRamp
    THEN Call("EnergyRow_ramped",
              <<acc, w1, w1.energy[e], Div(StiffnessRatio(w1.energy[e], mag), 100)>>)
    ELSE [w |-> w1, lhs |-> Call("mat3add", <<acc.lhs, w1.energy[e].hess_E[1]>>),
          rhs |-> vec3add(acc.rhs, w1.energy[e].grad_E[1])]

\* the NaN test on the magnitude of the gradient of the energy
EnergyRow_terms(acc, w0, e, mag) ==
    Call("EnergyRow_nan", <<acc, IF isNaN(mag) THEN OnNaNGradient(w0) ELSE w0, e, mag>>)

\* the gradient magnitude of the energy row
EnergyRow_mag(acc, w0, e) ==
    Call("EnergyRow_terms", <<acc, w0, e, Call("vec3length", <<w0.energy[e].grad_E[1]>>)>>)

\* the accumulation of the single row of an energy into the system of a body
EnergyRow(acc, e, body) ==
    Call("EnergyRow_mag",
         <<acc, Call("computeEnergyTerms", <<acc.w, e, body, acc.w.solver.projectionMode,
                                             acc.w.solver.trustRegionRho>>), e>>)

\* for (const energy of body.energies)
RECURSIVE BodyEnergies(_, _, _)
BodyEnergies(acc, body, i) ==
    IF acc.w.trace.aborted \/ i > Len(acc.w.rigidBox[body].energies) THEN acc
    ELSE BodyEnergies(Call("EnergyRow", <<acc, acc.w.rigidBox[body].energies[i], body>>),
                      body, i + 1)

\* 0.5 * dot(dx, grad_E) summed over the energies of the body
RECURSIVE PredictedDecrease(_, _, _, _)
PredictedDecrease(w, body, dx, i) ==
    IF i > Len(w.rigidBox[body].energies) THEN 0
    ELSE Add(Div(vec3dot(dx, w.energy[w.rigidBox[body].energies[i]].grad_E[1]), 2),
             Call("PredictedDecrease", <<w, body, dx, i + 1>>))

\* the sum of the predicted decrease after the position update
PrimalBody_sum(p, body, dx, w3) ==
    [w |-> w3,
     predictedDecrease |->
         Add(p.predictedDecrease, Call("PredictedDecrease", <<w3, body, dx, 1>>))]

\* body.setPosition(position - dx); a pivot of the factorisation that is not
\* positive is recorded
PrimalBody_apply(p, body, a2, dx, bad) ==
    Call("PrimalBody_sum", <<p, body, dx,
        [a2.w EXCEPT
            !.rigidBox[body].position = vec3sub(@, dx),
            !.trace.badPivot = @ \/ bad,
            !.trace.dxAppliedOnBadPivot = @ \/ bad]>>)

\* the solve of the accumulated system, unless an energy row returned from step
PrimalBody_rows(p, body, a2) ==
    IF a2.w.trace.aborted THEN [p EXCEPT !.w = a2.w]
    ELSE Call("PrimalBody_apply", <<p, body, a2,
             Call("solveLDLT", <<a2.lhs, a2.rhs>>),
             Le(LDLT_D1(a2.lhs), 0) \/ Le(LDLT_D2(a2.lhs), 0)
                 \/ Le(Call("LDLT_D3", <<a2.lhs>>), 0)>>)

\* the rows of the forces and of the energies of the body, from lhs = M / dt^2
\* and rhs = lhs (position - inertial)
PrimalBody_system(p, body, lhs0) ==
    Call("PrimalBody_rows", <<p, body,
        BodyEnergies(
            BodyForces(
                [w |-> [p.w EXCEPT
                           !.trace.primalSolves = @ + 1,
                           !.trace.workAfterNaN =
                               IF p.w.trace.nanDetected THEN @ + 1 ELSE @],
                 lhs |-> lhs0,
                 rhs |-> Call("transformMat3",
                              <<vec3sub(p.w.rigidBox[body].position,
                                        p.w.rigidBox[body].inertial), lhs0>>)],
                body, 1),
            body, 1)>>)

\* M / dt^2 of the body
PrimalBody_mass(p, body, q) ==
    Call("PrimalBody_system", <<p, body,
        mat3diag(Mul(p.w.rigidBox[body].mass, q), Mul(p.w.rigidBox[body].mass, q),
                 Mul(p.w.rigidBox[body].moment, q))>>)

\* the primal solve of one body: p.w the world, p.predictedDecrease the sum
PrimalBody(p, body) ==
    IF p.w.rigidBox[body].staticBody THEN p
    ELSE Call("PrimalBody_mass",
              <<p, body, Mul(p.w.solver.invDt, p.w.solver.invDt)>>)

\* for (const body of this.bodies) of the primal block
RECURSIVE Primal(_, _)
Primal(p, i) ==
    IF p.w.trace.aborted \/ i > Len(p.w.solver.bodies) THEN p
    ELSE Primal(Call("PrimalBody", <<p, p.w.solver.bodies[i]>>), i + 1)

\* the sum of energy.getCachedEnergy() over the solver's energies
RECURSIVE TotalEnergy(_, _)
TotalEnergy(w, i) ==
    IF i > Len(w.solver.energies) THEN 0
    ELSE Add(w.energy[w.solver.energies[i]].cachedEnergy, TotalEnergy(w, i + 1))

\* the update of the trust-region ratio (ADAPTIVE projection only); the ratio
\* is kept in hundredths, and 1e-10 is below the resolution of the lattice
TrustRegion(w, predictedDecrease) ==
    LET currentTotalEnergy == TotalEnergy(w, 1)
        actualDecrease == Sub(w.solver.prevTotalElasticEnergy, currentTotalEnergy)
    IN  IF w.solver.projectionMode # ADAPTIVE THEN w
        ELSE [w EXCEPT
                !.solver.trustRegionRho =
                    IF Gt(Abs(predictedDecrease), 0)
                    THEN Div(Mul(actualDecrease, 100), predictedDecrease)
                    ELSE 100,
                !.solver.prevTotalElasticEnergy = currentTotalEnergy]

\* the growth of the penalty of a row whose lambda lies strictly inside its bounds
DualRow_penalty(w, f, j, fo1, exceeds) ==
    [w EXCEPT
        !.force[f] =
            IF Gt(fo1.lambda[j], fo1.fmin[j]) /\ Lt(fo1.lambda[j], fo1.fmax[j])
            THEN [fo1 EXCEPT !.penalty[j] =
                     Min(Add(@, Mul(w.solver.beta, Abs(fo1.C[j]))),
                         Min(fo1.stiffness[j], PENALTY_MAX))]
            ELSE fo1,
        !.trace.disabled = IF exceeds THEN @ \cup {f} ELSE @]

\* the fracture test of a row: the force is disabled when |lambda| reaches it
DualRow_fracture(w, f, j, fo0, exceeds) ==
    Call("DualRow_penalty",
         <<w, f, j, IF exceeds THEN Force_disable(fo0) ELSE fo0, exceeds>>)

\* the store of the clamped lambda of a row
DualRow_lambda(w, f, j, l2) ==
    Call("DualRow_fracture", <<w, f, j, [w.force[f] EXCEPT !.lambda[j] = l2],
                               Ge(Abs(l2), w.force[f].fracture[j])>>)

\* the dual update of row j of force f
DualRow(w, f, j) ==
    Call("DualRow_lambda", <<w, f, j,
        ClampHigh(ClampLow(Add(RowLambda(w.force[f], j),
                               Mul(w.force[f].penalty[j], w.force[f].C[j])),
                           w.force[f].fmin[j]),
                  w.force[f].fmax[j])>>)

RECURSIVE DualRows(_, _, _)
DualRows(w, f, j) ==
    IF j > getRows(w.force[f]) THEN w ELSE DualRows(Call("DualRow", <<w, f, j>>), f, j + 1)

\* for (const force of this.forces) of the dual block
RECURSIVE DualForces(_, _)
DualForces(w, i) ==
    IF i > Len(w.solver.forces) THEN w
    ELSE LET f == w.solver.forces[i]
         IN  DualForces(DualRows([computeConstraints(w, f, w.trace.currentAlpha)
                                     EXCEPT !.trace.touched = @ \cup {f}], f, 1),
                        i + 1)

\* for (const energy of this.energies) of the dual block
RECURSIVE DualEnergies(_, _)
DualEnergies(w, i) ==
    IF i > Len(w.solver.energies) THEN w
    ELSE LET e == w.solver.energies[i]
             w1 == updateStrainMeasures(w, e)
             en == w1.energy[e]
             newStiffness == Add(en.effectiveStiffness,
                                 Mul(w.solver.betaEnergy, en.strainMeasure))
         IN  DualEnergies(
                 [w1 EXCEPT !.energy[e].effectiveStiffness =
                     Min(newStiffness, en.targetStiffness)],
                 i + 1)

\* the dual block of one iteration
Dual(w) ==
    DualEnergies(
        DualForces([w EXCEPT
            !.trace.dualUpdates = @ + 1,
            !.trace.workAfterNaN = IF w.trace.nanDetected THEN @ + 1 ELSE @], 1),
        1)

\* the velocity of one body from its displacement over the step
ExtractVelocity(w, body) ==
    LET rb == w.rigidBox[body]
        moved == vec3sub(rb.position, rb.lastPosition)
        newVelocity == IF rb.isDragged THEN vec3add(moved, rb.addedDragVelocity)
                       ELSE moved
    IN  IF Gt(rb.mass, 0)
        THEN [w EXCEPT !.rigidBox[body] = [@ EXCEPT
                !.prevVelocity = rb.velocity,
                !.addedDragVelocity = IF rb.isDragged THEN Vec3Zero ELSE @,
                !.velocity = IF rb.staticBody THEN @
                             ELSE vec3scale(newVelocity, w.solver.invDt)]]
        ELSE w

RECURSIVE ExtractVelocities(_, _)
ExtractVelocities(w, i) ==
    IF i > Len(w.solver.bodies) THEN w
    ELSE ExtractVelocities(Call("ExtractVelocity", <<w, w.solver.bodies[i]>>), i + 1)

\* the velocity block of iteration iterations - 1
Velocities(w) ==
    ExtractVelocities([w EXCEPT
        !.trace.velocityExtractions = @ + 1,
        !.trace.workAfterNaN = IF w.trace.nanDetected THEN @ + 1 ELSE @], 1)

\* the plausible fault of a velocity block that runs on every iteration
Iterate_velocity_Every(w2, iter) == Velocities(w2)

\* the velocity block of iteration iter: if (iter == this.iterations - 1)
Iterate_velocity(w2, iter) ==
    IF iter = w2.solver.iterations - 1 THEN Velocities(w2) ELSE w2

\* the plausible fault of a dual block that runs on every iteration
Iterate_dual_Always(w1, iter) == Call("Iterate_velocity", <<Dual(w1), iter>>)

\* the dual block of iteration iter: if (iter < this.iterations)
Iterate_dual(w1, iter) ==
    Call("Iterate_velocity", <<IF iter < w1.solver.iterations THEN Dual(w1) ELSE w1, iter>>)

\* the trust-region update of iteration iter, unless the primal returned
Iterate_primal(p, iter) ==
    IF p.w.trace.aborted THEN p.w
    ELSE Call("Iterate_dual", <<TrustRegion(p.w, p.predictedDecrease), iter>>)

\* let currentAlpha: number = this.alpha, at the head of every iteration
currentAlpha(w, iter) == w.solver.alpha

\* the lambda and the penalty of every force of the solver and the effective
\* stiffness of every energy of the solver
DualVariables(w) ==
    [forces |-> [i \in 1 .. Len(w.solver.forces) |->
                    <<w.force[w.solver.forces[i]].lambda,
                      w.force[w.solver.forces[i]].penalty>>],
     energies |-> [i \in 1 .. Len(w.solver.energies) |->
                      w.energy[w.solver.energies[i]].effectiveStiffness]]

\* iteration iter of the main loop; the trace records the local currentAlpha,
\* the number of calls of computeConstraints the primal of the iteration
\* makes, the number of primal blocks of the step and the dual variables the
\* iteration starts from
Iteration(w, iter) ==
    Call("Iterate_primal",
         <<Primal([w |-> [w EXCEPT !.trace.currentAlpha = currentAlpha(w, iter),
                                   !.trace.evaluations = 0,
                                   !.trace.primalBlocks = @ + 1,
                                   !.trace.duals = DualVariables(w)],
                   predictedDecrease |-> 0], 1), iter>>)

\* the main loop: iteration iter (from 0) and those after it
RECURSIVE Iterate(_, _, _)
Iterate(w, iter, iterations) ==
    IF w.trace.aborted \/ iter >= iterations THEN w
    ELSE Iterate(Call("Iteration", <<w, iter>>), iter + 1, iterations)

\* the plausible fault of a step that honours only the latched stop
Halted_UrgentStopOnly(w) == w.solver.urgentStop

\* the two early returns of step: if (urgentStop) return; if (paused) return
Halted(w) == w.solver.urgentStop \/ w.solver.paused

\* |dt - this.dt| > 0.01, both given by their inverses
TimestepChanged(a, b) == Gt(Mul(100, Abs(Sub(b, a))), Mul(a, b))

\* the record of what the last step did, emptied at its entry
StepTrace(w) == [w EXCEPT !.trace = [NoTrace EXCEPT !.disabled = w.trace.disabled]]

\* the warning on a changed timestep
step_warn(started, invDtArg) ==
    IF TimestepChanged(invDtArg, started.solver.invDt)
    THEN logWarn(started, "Physics timestep changed")
    ELSE started

\* this.contactsToRender = []; this.contactLinesToRender = []
step_clear(warned) ==
    [warned EXCEPT !.solver.contactsToRender = <<>>,
                   !.solver.contactLinesToRender = <<>>]

\* the initialisation and warm start of the forces and of the energies
Initialize(w1) == InitEnergies(InitForces(w1, 1), 1)

\* the warm start of the bodies
WarmStart(w3) == WarmStartBodies(w3, 1)

\* the end of a step that was not returned from
step_end(w5) == IF w5.trace.aborted THEN w5 ELSE [w5 EXCEPT !.trace.completed = TRUE]

\* the iterations of the step, one more with post-stabilisation
step_iterate(w4) ==
    Iterate(w4, 0, w4.solver.iterations + (IF w4.solver.postStabilization THEN 1 ELSE 0))

\* Solver.step(dt), dt given by its inverse: the broadphase, the initialisation
\* and warm start of the forces and of the energies, the warm start of the
\* bodies, the iterations
step(w, invDtArg) ==
    IF Halted(w) THEN StepTrace(w)
    ELSE Call("step_end", <<Call("step_iterate", <<Call("WarmStart", <<
             Call("Initialize", <<Call("Broadphase",
                 <<step_clear(step_warn([StepTrace(w) EXCEPT !.trace.ran = TRUE],
                                        invDtArg)), 1, 2>>)>>)>>)>>)>>)

\* The operators of the solver call one another through Call: Call(f, args) is
\* the operator named f applied to the arguments args, which are values by the
\* time the operator is entered.
Call(f, args) ==
    CASE Len(args) = 0 -> args
      [] f = "vec3length" -> vec3length(args[1])
      [] f = "transformMat2" -> transformMat2(args[1], args[2])
      [] f = "mat3add" -> mat3add(args[1], args[2])
      [] f = "outerMat3D" -> outerMat3D(args[1], args[2])
      [] f = "transformMat3" -> transformMat3(args[1], args[2])
      [] f = "MulMod" -> MulMod(args[1], args[2], args[3])
      [] f = "MulDiv" -> MulDiv(args[1], args[2], args[3])
      [] f = "QuadOver" -> QuadOver(args[1], args[2], args[3])
      [] f = "LDLT_D3" -> LDLT_D3(args[1])
      [] f = "solveLDLT" -> solveLDLT(args[1], args[2])
      [] f = "mat2multiply" -> mat2multiply(args[1], args[2])
      [] f = "DmDet" -> DmDet(args[1])
      [] f = "gradNi" -> gradNi(args[1], args[2])
      [] f = "Fnum" -> Fnum(args[1], args[2])
      [] f = "L2num" -> L2num(args[1], args[2])
      [] f = "SumSquares" -> SumSquares(args[1])
      [] f = "StrainMeasure" -> StrainMeasure(args[1], args[2])
      [] f = "computeHessianEigenvalues" -> computeHessianEigenvalues(args[1], args[2], args[3])
      [] f = "handleInvertedElement" -> handleInvertedElement(args[1], args[2], args[3])
      [] f = "HessianF" -> HessianF(args[1], args[2], args[3], args[4], args[5])
      [] f = "computeEnergyTerms" -> computeEnergyTerms(args[1], args[2], args[3], args[4], args[5])
      [] f = "ClipSegmentToLine" -> ClipSegmentToLine(args[1], args[2], args[3], args[4])
      [] f = "ComputeIncidentEdge" -> ComputeIncidentEdge(args[1], args[2], args[3], args[4])
      [] f = "BestAxis" -> BestAxis(args[1], args[2])
      [] f = "collide" -> collide(args[1], args[2])
      [] f = "Manifold_initialize" -> Manifold_initialize(args[1], args[2])
      [] f = "Joint_initialize" -> Joint_initialize(args[1], args[2])
      [] f = "Joint_C" -> Joint_C(args[1], args[2], args[3])
      [] f = "Manifold_computeConstraints" -> Manifold_computeConstraints(args[1], args[2], args[3])
      [] f = "Jrow" -> Jrow(args[1], args[2], args[3], args[4])
      [] f = "Hrow" -> Hrow(args[1], args[2], args[3], args[4])
      [] f = "getContactRenders" -> getContactRenders(args[1], args[2])
      [] f = "getContactLines" -> getContactLines(args[1], args[2])
      [] f = "Broadphase" -> Broadphase(args[1], args[2], args[3])
      [] f = "WarmStartRow" -> WarmStartRow(args[1], args[2], args[3])
      [] f = "GravityTerm" -> GravityTerm(args[1], args[2], args[3])
      [] f = "AccelWeight" -> AccelWeight(args[1], args[2])
      [] f = "WarmStartBody" -> WarmStartBody(args[1], args[2])
      [] f = "ForceRow" -> ForceRow(args[1], args[2], args[3], args[4])
      [] f = "EnergyRow" -> EnergyRow(args[1], args[2], args[3])
      [] f = "PredictedDecrease" -> PredictedDecrease(args[1], args[2], args[3], args[4])
      [] f = "PrimalBody" -> PrimalBody(args[1], args[2])
      [] f = "DualRow" -> DualRow(args[1], args[2], args[3])
      [] f = "ExtractVelocity" -> ExtractVelocity(args[1], args[2])
      [] f = "step" -> step(args[1], args[2])
      [] f = "BestAxis_choose" ->
             BestAxis_choose(args[1], args[2], args[3], args[4], args[5], args[6], args[7], args[8])
      [] f = "BestAxis_faces" ->
             BestAxis_faces(args[1], args[2], args[3], args[4], args[5], args[6], args[7])
      [] f = "BestAxis_frames" ->
             BestAxis_frames(args[1], args[2], args[3], args[4], args[5])
      [] f = "MakeContact" -> MakeContact(args[1], args[2], args[3])
      [] f = "collide_contacts" -> collide_contacts(args[1], args[2], args[3])
      [] f = "collide_clip" -> collide_clip(args[1], args[2], args[3], args[4], args[5])
      [] f = "collide_face" -> collide_face(args[1])
      [] f = "collide_axis" ->
             collide_axis(args[1], args[2], args[3], args[4], args[5], args[6], args[7])
      [] f = "ClipSegment" -> ClipSegment(args[1], args[2], args[3], args[4])
      [] f = "HessianEigenvalues_lam" ->
             HessianEigenvalues_lam(args[1], args[2], args[3], args[4], args[5], args[6], args[7], args[8])
      [] f = "HessianEigenvalues_n" ->
             HessianEigenvalues_n(args[1], args[2], args[3], args[4], args[5], args[6], args[7])
      [] f = "HessianEigenvalues_trace" ->
             HessianEigenvalues_trace(args[1], args[2], args[3], args[4], args[5], args[6])
      [] f = "InvertedElement_store" ->
             InvertedElement_store(args[1], args[2], args[3], args[4], args[5], args[6], args[7], args[8])
      [] f = "InvertedElement" ->
             InvertedElement(args[1], args[2], args[3], args[4], args[5], args[6], args[7])
      [] f = "InvertedElement_F" -> InvertedElement_F(args[1], args[2], args[3], args[4])
      [] f = "outerMat2D" -> outerMat2D(args[1], args[2])
      [] f = "HessianF_sum" ->
             HessianF_sum(args[1], args[2], args[3], args[4], args[5], args[6], args[7])
      [] f = "HessianF_twist" ->
             HessianF_twist(args[1], args[2], args[3], args[4], args[5], args[6], args[7])
      [] f = "HessianBlock" -> HessianBlock(args[1], args[2], args[3], args[4], args[5])
      [] f = "HessianArea" -> HessianArea(args[1], args[2], args[3])
      [] f = "EnergyTerms_store" ->
             EnergyTerms_store(args[1], args[2], args[3], args[4], args[5], args[6], args[7], args[8])
      [] f = "EnergyTerms_H" -> EnergyTerms_H(args[1], args[2], args[3], args[4])
      [] f = "EnergyTerms_P" -> EnergyTerms_P(args[1], args[2], args[3], args[4])
      [] f = "EnergyTerms_density" -> EnergyTerms_density(args[1], args[2], args[3])
      [] f = "EnergyTerms_L" ->
             EnergyTerms_L(args[1], args[2], args[3], args[4], args[5], args[6], args[7], args[8])
      [] f = "EnergyTerms_F" ->
             EnergyTerms_F(args[1], args[2], args[3], args[4], args[5], args[6], args[7])
      [] f = "L2num_FtF" -> L2num_FtF(args[1], args[2])
      [] f = "L2num_of" -> L2num_of(args[1], args[2])
      [] f = "StrainOf" -> StrainOf(args[1], args[2])
      [] f = "ForceRow_sum" -> ForceRow_sum(args[1], args[2], args[3], args[4])
      [] f = "ForceRow_add" ->
             ForceRow_add(args[1], args[2], args[3], args[4], args[5], args[6])
      [] f = "EnergyRow_ramped" -> EnergyRow_ramped(args[1], args[2], args[3], args[4])
      [] f = "EnergyRow_terms" -> EnergyRow_terms(args[1], args[2], args[3], args[4])
      [] f = "EnergyRow_mag" -> EnergyRow_mag(args[1], args[2], args[3])
      [] f = "PrimalBody_sum" -> PrimalBody_sum(args[1], args[2], args[3], args[4])
      [] f = "PrimalBody_apply" ->
             PrimalBody_apply(args[1], args[2], args[3], args[4], args[5])
      [] f = "PrimalBody_rows" -> PrimalBody_rows(args[1], args[2], args[3])
      [] f = "PrimalBody_system" -> PrimalBody_system(args[1], args[2], args[3])
      [] f = "PrimalBody_mass" -> PrimalBody_mass(args[1], args[2], args[3])
      [] f = "DualRow_penalty" ->
             DualRow_penalty(args[1], args[2], args[3], args[4], args[5])
      [] f = "DualRow_fracture" ->
             DualRow_fracture(args[1], args[2], args[3], args[4], args[5])
      [] f = "DualRow_lambda" -> DualRow_lambda(args[1], args[2], args[3], args[4])
      [] f = "step_end" -> step_end(args[1])
      [] f = "step_iterate" -> step_iterate(args[1])
      [] f = "EnergyRow_nan" -> EnergyRow_nan(args[1], args[2], args[3], args[4])
      [] f = "Iterate_velocity" -> Iterate_velocity(args[1], args[2])
      [] f = "Iterate_dual" -> Iterate_dual(args[1], args[2])
      [] f = "Iterate_primal" -> Iterate_primal(args[1], args[2])
      [] f = "Iteration" -> Iteration(args[1], args[2])
      [] f = "Initialize" -> Initialize(args[1])
      [] f = "WarmStart" -> WarmStart(args[1])

\* ------------------------------------------------------------------------
\* GameManager: levels and the calls it makes on the solver
\* ------------------------------------------------------------------------
Body(scale, density, friction, position, velocity) ==
    [scale |-> scale, density |-> density, friction |-> friction,
     position |-> position, velocity |-> velocity]

JointForce(bodyAIndex, bodyBIndex, rA, rB, stiffness, fracture) ==
    [bodyAIndex |-> bodyAIndex, bodyBIndex |-> bodyBIndex, rA |-> rA, rB |-> rB,
     stiffness |-> stiffness, fracture |-> fracture]

Floor == Body(<<8, 2>>, 0, 100, <<0, 0, 0>>, Vec3Zero)
Anchor == Body(<<2, 2>>, 0, 100, <<0, 6, 0>>, Vec3Zero)
Particle(x, y, density, velocity) ==
    Body(<<1, 1>>, density, 100, <<x, y, 0>>, velocity)

\* the scenes: 1 a box sliding on a floor, 2 a hinge, 3 a breakable weld,
\* 4 and 5 an elastic triangle, 6 a joint with a negative stiffness row,
\* 7 a triangle of the cloth of loadHardcodedLevel11, 8 two boxes that leave
\* the world side by side; the solver is stepped on the first six, and on
\* the eighth by the main loop
Levels == 1 .. 6
LevelBodies(k) ==
    CASE k = 1 -> <<Floor, Body(<<2, 2>>, 1, 100, <<0, 2, 0>>, <<120, -600, 0>>)>>
      [] k = 2 -> <<Anchor, Body(<<2, 2>>, 1, 100, <<4, 6, 0>>, <<0, -60, 0>>)>>
      [] k = 3 -> <<Anchor, Body(<<2, 2>>, 1, 100, <<4, 6, 0>>, <<0, 0, 60>>)>>
      [] k = 4 -> <<Particle(0, 0, 0, Vec3Zero), Particle(3, 0, 12, <<60, 0, 0>>),
                    Particle(0, 3, 12, Vec3Zero)>>
      [] k = 5 -> <<Particle(0, 0, 0, Vec3Zero), Particle(3, 0, 12, <<60, 0, 0>>),
                    Particle(0, 3, 12, Vec3Zero)>>
      [] k = 7 -> <<Particle(0, 0, 0, Vec3Zero), Particle(2, 0, 1, Vec3Zero),
                    Particle(2, 2, 1, Vec3Zero)>>
      [] k = 8 -> <<Body(<<2, 2>>, 1, 100, <<398, 0, 0>>, <<600, 0, 0>>),
                    Body(<<2, 2>>, 1, 100, <<398, 10, 0>>, <<600, 0, 0>>)>>
      [] OTHER -> <<Anchor, Body(<<2, 2>>, 1, 100, <<4, 6, 0>>, <<60, 0, 0>>)>>

LevelJoints(k) ==
    CASE k = 2 -> <<JointForce(1, 2, <<2, 0>>, <<-2, 0>>, <<Inf, Inf, 0>>, Inf)>>
      [] k = 3 -> <<JointForce(1, 2, <<2, 0>>, <<-2, 0>>, <<Inf, Inf, Inf>>, 5)>>
      [] k = 6 -> <<JointForce(1, 2, <<2, 0>>, <<-2, 0>>, <<-20000, Inf, Inf>>, Inf)>>
      [] OTHER -> <<>>

\* Young's modulus and Poisson ratio (in hundredths) of the level's triangle;
\* loadHardcodedLevel11 passes mu = 300 and lambda = 258 as E and nu
LevelEnergies(k) ==
    CASE k = 4 -> <<[E |-> 26, nu |-> 30]>>
      [] k = 5 -> <<[E |-> 26, nu |-> 50]>>
      [] k = 7 -> <<[E |-> 300, nu |-> 25800]>>
      [] OTHER -> <<>>

\* new RigidBox(...) followed by solver.addRigidBox(box)
SpawnBox(w, b) ==
    LET box == SmallestOf(FreeBodyIds(w))
    IN  addRigidBox(
            [w EXCEPT !.rigidBox[box] =
                RigidBox(b.scale, b.density, b.friction, b.position, b.velocity)],
            box)

\* GameManager.addRigidBox: the density is 0 for a static box and 1 otherwise
GameManager_addRigidBox(w, pos, scale, velocity, isStatic, friction) ==
    SpawnBox(w, Body(scale, IF isStatic THEN 0 ELSE 1, friction, pos, velocity))

RECURSIVE LoadBodies(_, _)
LoadBodies(w, bs) ==
    IF bs = <<>> THEN w ELSE LoadBodies(SpawnBox(w, Head(bs)), Tail(bs))

\* the JointForces loop of LoadLevel: new Joint(...) then solver.addForce
LoadJoint(w, jf) ==
    LET bodyA == IF jf.bodyAIndex # 0 THEN w.solver.bodies[jf.bodyAIndex] ELSE 0
        joint == SmallestOf(FreeForceIds(w))
    IN  IF jf.bodyBIndex > Len(w.solver.bodies)
        THEN logWarn(w, "Joint force bodyBIndex is invalid")
        ELSE addForce(Joint_new(w, joint, <<bodyA, w.solver.bodies[jf.bodyBIndex]>>,
                                jf.rA, jf.rB, jf.stiffness, jf.fracture),
                      joint)

RECURSIVE LoadJoints(_, _)
LoadJoints(w, js) ==
    IF js = <<>> THEN w ELSE LoadJoints(LoadJoint(w, Head(js)), Tail(js))

\* solver.addEnergy(new StVKEnergy([A, B, C], E, nu)) of a hardcoded level
RECURSIVE LoadEnergies(_, _)
LoadEnergies(w, es) ==
    IF es = <<>> THEN w
    ELSE LET e == SmallestOf(FreeEnergyIds(w))
         IN  LoadEnergies(
                 addEnergy(StVK_new(w, e, w.solver.bodies, Head(es).E, Head(es).nu), e),
                 Tail(es))

\* GameManager.LoadLevel: reset(), then the objects of the level
GameManager_LoadLevel(w, k) ==
    LoadEnergies(
        LoadJoints(LoadBodies(Collect(Clear(w)), LevelBodies(k)), LevelJoints(k)),
        LevelEnergies(k))

\* ------------------------------------------------------------------------
\* The state machine
\* ------------------------------------------------------------------------
World ==
    [rigidBox |-> rigidBox, force |-> force, energy |-> energy,
     solver |-> solver, trace |-> trace]

EmptyWorld ==
    [rigidBox |-> [b \in BodyIds |-> NoBody], force |-> [f \in ForceIds |-> NoForce],
     energy |-> [e \in EnergyIds |-> NoEnergy], solver |-> Solver_new,
     trace |-> NoTrace]

\* the next state is the world w, garbage collected
Becomes(w) ==
    LET c == Collect(w)
    IN  /\ rigidBox' = c.rigidBox
        /\ force' = c.force
        /\ energy' = c.energy
        /\ solver' = c.solver
        /\ trace' = c.trace
        /\ UNCHANGED probe

Op(name, arg) == [name |-> name, arg |-> arg]

\* an operation other than step
Does(name, arg, w) ==
    /\ nOps < MaxOps
    /\ Becomes(w)
    /\ lastOp' = Op(name, arg)
    /\ nOps' = nOps + 1
    /\ UNCHANGED <<nSteps, loop>>

\* the main loop before startMainLoop has run; times are in thirds of a
\* millisecond, so that the fixed tick of 1/60 s is 50 of them.  pending
\* holds the animation-frame callbacks the browser has yet to call, rafID
\* the handle of the last one requested (0 for null); isDragging,
\* draggedBox and dragForce are the drag fields of the manager
NoLoop ==
    [running |-> FALSE, shouldRestart |-> FALSE, CurrentLevelID |-> 0,
     accumulator |-> 0, lastFrameTime |-> 0, steps |-> 0, excess |-> 0,
     nFrames |-> 0, rafID |-> 0, pending |-> {},
     isDragging |-> FALSE, draggedBox |-> 0, dragForce |-> 0]

\* the state after the constructor of GameManager: new Solver, setDefaults
Init ==
    /\ rigidBox = EmptyWorld.rigidBox
    /\ force = EmptyWorld.force
    /\ energy = EmptyWorld.energy
    /\ solver = setDefaults(EmptyWorld).solver
    /\ trace = NoTrace
    /\ lastOp = Op("new", 0)
    /\ nSteps = 0
    /\ nOps = 0
    /\ loop = NoLoop
    /\ probe = NoProbe

\* the values the driver passes to step: the fixed tick, or a longer one
StepArgs == {InvDt, InvDt \div 2}

Step ==
    /\ nSteps < MaxSteps
    /\ \E invDtArg \in StepArgs :
          /\ Becomes(Call("step", <<World, invDtArg>>))
          /\ lastOp' = Op("step", invDtArg)
    /\ nSteps' = nSteps + 1
    /\ UNCHANGED <<nOps, loop>>

LoadLevel == \E k \in Levels : Does("LoadLevel", k, GameManager_LoadLevel(World, k))

Reset == Does("Clear", 0, Clear(World))

SetSolverDefaults == Does("setDefaults", 0, setDefaults(World))

ModifyGravity ==
    \E g \in {<<0, 0>>, <<0, -3600000>>, <<3000, 0>>} :
        Does("setGravity", g, setGravity(World, g))

ModifyAlpha ==
    \E a \in {0} : Does("setAlpha", a, [World EXCEPT !.solver.alpha = a])

ModifyBeta ==
    \E b \in {10} : Does("setBeta", b, [World EXCEPT !.solver.beta = b])

ModifyGamma ==
    \E g \in {50} : Does("setGamma", g, [World EXCEPT !.solver.gamma = g])

ModifyBetaEnergy ==
    \E b \in {1} : Does("setBetaEnergy", b, [World EXCEPT !.solver.betaEnergy = b])

ModifyIterations ==
    \E n \in {0, 2} : Does("modifyIterations", n, modifyIterations(World, n))

ModifyPostStabilization ==
    \E on \in BOOLEAN :
        Does("setIsPostStabilization", on,
             [World EXCEPT !.solver.postStabilization = on])

ModifyUseEnergyRamp ==
    \E on \in BOOLEAN :
        Does("setUseEnergyRamp", on, [World EXCEPT !.solver.useEnergyRamp = on])

SetProjectionMode ==
    \E mode \in {CLAMP, ADAPTIVE} :
        Does("setProjectionMode", mode, [World EXCEPT !.solver.projectionMode = mode])

TogglePause ==
    Does("togglePause", 0, [World EXCEPT !.solver.paused = ~@])

AddRigidBox ==
    /\ FreeBodyIds(World) # {}
    /\ \E isStatic \in BOOLEAN :
          Does("addRigidBox", isStatic,
               GameManager_addRigidBox(World, <<0, 4, 0>>, <<2, 2>>, <<0, -60, 0>>,
                                       isStatic, 50))

RemoveRigidBox ==
    \E box \in Range(solver.bodies) :
        Does("removeRigidBox", box, removeRigidBox(World, box))

\* a joint built outside a level: new Joint([bodyA, bodyB], ...) and addForce
NewJoint ==
    /\ FreeForceIds(World) # {}
    /\ \A f \in ForceIds : force[f].kind # "Joint"
    /\ \E bodyB \in Range(solver.bodies) :
       \E bodyA \in {0} \cup (Range(solver.bodies) \ {bodyB}) :
          Does("addForce", <<bodyA, bodyB>>,
               LoadJoint(World,
                         JointForce(indexOf(solver.bodies, bodyA),
                                    indexOf(solver.bodies, bodyB),
                                    Vec2Zero, Vec2Zero, <<10000, 10000, 0>>, Inf)))

RemoveForce ==
    \E f \in Range(solver.forces) : Does("removeForce", f, removeForce(World, f))

RemoveEnergy ==
    \E e \in Range(solver.energies) : Does("removeEnergy", e, removeEnergy(World, e))

Next ==
    \/ Step
    \/ LoadLevel
    \/ Reset
    \/ SetSolverDefaults
    \/ ModifyGravity
    \/ ModifyAlpha
    \/ ModifyBeta
    \/ ModifyGamma
    \/ ModifyBetaEnergy
    \/ ModifyIterations
    \/ ModifyPostStabilization
    \/ ModifyUseEnergyRamp
    \/ SetProjectionMode
    \/ TogglePause
    \/ AddRigidBox
    \/ RemoveRigidBox
    \/ NewJoint
    \/ RemoveForce
    \/ RemoveEnergy

Spec == Init /\ [][Next]_vars

\* ------------------------------------------------------------------------
\* GameManager: the main loop
\* ------------------------------------------------------------------------
\* frames taken in one behaviour
MaxFrames == 3

\* const fixedStep = 1 / 60, in thirds of a millisecond
FixedStep == 50

MAX_PHYSICS_STEPS == 5

\* GameRenderer.xWorldLimit and yWorldLimit
xWorldLimit == 400
yWorldLimit == 300

\* the time between two animation frames, in thirds of a millisecond
FrameDeltas == {20, 70, 330}

\* the levels the loop is started on
LoopLevels == {1, 2, 8}

\* a reference of the manager to a body or force that has been destroyed
Gone == -1

\* this.rafID = requestAnimationFrame(frame): a handle that is not in use
requestAnimationFrame(l) ==
    LET id == SmallestOf((1 .. Cardinality(l.pending) + 2) \ (l.pending \cup {l.rafID}))
    IN  [l EXCEPT !.rafID = id, !.pending = @ \cup {id}]

\* startMainLoop: a loop that runs is left alone; otherwise a new closure
\* with an empty accumulator is scheduled
startMainLoop(w, l) ==
    IF l.running
    THEN [w |-> logWarn(w, "Main loop already running!"), l |-> l]
    ELSE [w |-> w,
          l |-> requestAnimationFrame(
                    [l EXCEPT !.running = TRUE, !.accumulator = 0, !.lastFrameTime = 0])]

\* the plausible fault of a stop that leaves the requested frame pending
stop_NoCancel(l) == IF ~l.running THEN l ELSE [l EXCEPT !.running = FALSE]

\* GameManager.stop: the flag, then cancelAnimationFrame(this.rafID)
stop(l) ==
    IF ~l.running THEN l
    ELSE [l EXCEPT !.running = FALSE,
                   !.pending = IF l.rafID # 0 THEN @ \ {l.rafID} ELSE @,
                   !.rafID = 0]

\* the drag fields after solver.Clear() has destroyed every body and force:
\* what they referred to is gone
Orphan(l) ==
    [l EXCEPT !.draggedBox = IF @ # 0 THEN Gone ELSE @,
              !.dragForce = IF @ # 0 THEN Gone ELSE @]

\* LoadLevel as the manager runs it: reset() stops the loop and clears the
\* scene, the level is loaded and startMainLoop is called
LoadLevelAndStart(w, l, k) ==
    startMainLoop(GameManager_LoadLevel(w, k), Orphan(stop(l)))

\* while (accumulator >= fixedStep && steps < MAX_PHYSICS_STEPS); what a step
\* has destroyed is collected before the next one allocates
RECURSIVE FrameSteps(_, _, _)
FrameSteps(w, accumulator, steps) ==
    IF accumulator >= FixedStep /\ steps < MAX_PHYSICS_STEPS
    THEN FrameSteps(Collect(Call("step", <<w, InvDt>>)), accumulator - FixedStep,
                    steps + 1)
    ELSE [w |-> w, accumulator |-> accumulator, steps |-> steps]

\* the plausible fault of a loop that keeps the time it could not simulate
FrameDrop_Keep(accumulator, steps) == accumulator

\* if (steps === MAX_PHYSICS_STEPS) accumulator = 0
FrameDrop(accumulator, steps) ==
    IF steps = MAX_PHYSICS_STEPS THEN 0 ELSE accumulator

\* the loop over the bodies that removes those outside the world limits; the
\* index advances after a removal as well
RECURSIVE FrameCull(_, _)
FrameCull(w, i) ==
    IF i > Len(w.solver.bodies) THEN w
    ELSE LET body == w.solver.bodies[i]
             pos == w.rigidBox[body].position
         IN  IF \/ Lt(pos[1], -xWorldLimit) \/ Gt(pos[1], xWorldLimit)
                \/ Lt(pos[2], -yWorldLimit) \/ Gt(pos[2], yWorldLimit)
             THEN FrameCull(removeRigidBox(w, body), i + 1)
             ELSE FrameCull(w, i + 1)

\* the drag fields after bodies were removed: a removed body and the forces
\* removeRigidBox destroyed with it are gone
Track(w, l) ==
    [l EXCEPT
        !.draggedBox = IF @ > 0 /\ indexOf(w.solver.bodies, @) = 0 THEN Gone ELSE @,
        !.dragForce = IF @ > 0 /\ w.force[@].bodies = <<>> THEN Gone ELSE @]

\* the tail of frame(time): the scene after the culling, and the request of
\* the next frame
frame_cull(l, culled) ==
    [w |-> culled, l |-> requestAnimationFrame(Track(culled, l))]

\* the end of frame(time), after the substeps: the drop of the excess and
\* the removal of the bodies that left the world
frame_end(l, time, stepped) ==
    frame_cull([l EXCEPT
                   !.lastFrameTime = time,
                   !.accumulator = FrameDrop(stepped.accumulator, stepped.steps),
                   !.steps = stepped.steps,
                   !.excess = stepped.accumulator,
                   !.nFrames = @ + 1],
               FrameCull(stepped.w, 1))

\* a frame that finds the restart flag: restartGame() and return
frame_restart(w, l) ==
    LoadLevelAndStart(w, [l EXCEPT !.shouldRestart = FALSE, !.nFrames = @ + 1],
                      l.CurrentLevelID)

\* the callback frame(time) of a running loop
frame(w, l, time) ==
    IF ~l.running THEN [w |-> w, l |-> l]
    ELSE IF l.shouldRestart
    THEN frame_restart(w, [l EXCEPT !.lastFrameTime = IF @ = 0 THEN time ELSE @])
    ELSE frame_end(l, time,
                   FrameSteps(w, l.accumulator
                                 + (time - (IF l.lastFrameTime = 0 THEN time
                                            ELSE l.lastFrameTime)), 0))

\* the next state of the loop specification: the world and the loop of r
LoopBecomes(name, arg, r) ==
    /\ Becomes(r.w)
    /\ loop' = r.l
    /\ lastOp' = Op(name, arg)

\* the state after the first LoadLevel of the manager, on one of levels
InitLoopOn(levels) ==
    \E k \in levels :
        LET c == Collect(GameManager_LoadLevel(setDefaults(EmptyWorld), k))
        IN  /\ rigidBox = c.rigidBox
            /\ force = c.force
            /\ energy = c.energy
            /\ solver = c.solver
            /\ trace = c.trace
            /\ lastOp = Op("LoadLevel", k)
            /\ nSteps = 0
            /\ nOps = 0
            /\ loop = startMainLoop(c, [NoLoop EXCEPT !.CurrentLevelID = k]).l
            /\ probe = NoProbe

InitLoop == InitLoopOn(LoopLevels)

\* an animation frame: the browser calls a pending callback with a later
\* time stamp, deltas after the last one
FrameAfter(deltas) ==
    /\ loop.nFrames < MaxFrames
    /\ \E id \in loop.pending : \E d \in deltas :
          LoopBecomes("frame", d,
                      frame(World, [loop EXCEPT !.pending = @ \ {id}],
                            loop.lastFrameTime + d))
    /\ UNCHANGED <<nSteps, nOps>>

Frame == FrameAfter(FrameDeltas)

\* the key R: restartGame()
RestartKey ==
    /\ nOps < MaxOps
    /\ LoopBecomes("restartGame", 0,
                   LoadLevelAndStart(World, loop, loop.CurrentLevelID))
    /\ nOps' = nOps + 1
    /\ UNCHANGED nSteps

\* changeLevel(levelID): the level is loaded by the next frame
ChangeLevel ==
    /\ nOps < MaxOps
    /\ \E k \in LoopLevels :
          LoopBecomes("changeLevel", k,
                      [w |-> World,
                       l |-> [loop EXCEPT !.CurrentLevelID = k, !.shouldRestart = TRUE]])
    /\ nOps' = nOps + 1
    /\ UNCHANGED nSteps

\* handleAppVisibility of a page that is hidden: stop()
AppHidden ==
    /\ nOps < MaxOps
    /\ LoopBecomes("stop", 0, [w |-> World, l |-> stop(loop)])
    /\ nOps' = nOps + 1
    /\ UNCHANGED nSteps

\* handleAppVisibility of a page that is shown again: startMainLoop()
AppVisible ==
    /\ nOps < MaxOps
    /\ LoopBecomes("startMainLoop", 0, startMainLoop(World, loop))
    /\ nOps' = nOps + 1
    /\ UNCHANGED nSteps

NextLoop ==
    \/ Frame
    \/ ChangeLevel
    \/ RestartKey
    \/ AppHidden
    \/ AppVisible

SpecLoop == InitLoop /\ [][NextLoop]_vars

\* ------------------------------------------------------------------------
\* Dragging a box with the pointer
\* ------------------------------------------------------------------------
\* the box onMouseDown selects for a pointer at the centre of a box: the
\* first box of the list that is not static and has its centre there
SelectBox(w, mouse) ==
    LET hits == {i \in 1 .. Len(w.solver.bodies) :
                    /\ ~w.rigidBox[w.solver.bodies[i]].staticBody
                    /\ w.rigidBox[w.solver.bodies[i]].position[1] = mouse[1]
                    /\ w.rigidBox[w.solver.bodies[i]].position[2] = mouse[2]}
    IN  IF hits = {} THEN 0 ELSE w.solver.bodies[SmallestOf(hits)]

\* onMouseDown with the left button in DragAndDrop mode: the selected box is
\* flagged and a one-body Joint to the pointer is added to the solver
onMouseDown_drag(w, l, mouse, selectedBox, joint) ==
    [w |-> addForce(Joint_new([w EXCEPT !.rigidBox[selectedBox].isDragged = TRUE],
                              joint, <<selectedBox>>, mouse, Vec2Zero,
                              <<10000, 10000, 0>>, Inf),
                    joint),
     l |-> [l EXCEPT !.isDragging = TRUE, !.draggedBox = selectedBox,
                     !.dragForce = joint]]

onMouseDown(w, l, mouse) ==
    IF SelectBox(w, mouse) = 0 THEN [w |-> w, l |-> l]
    ELSE onMouseDown_drag(w, l, mouse, SelectBox(w, mouse), SmallestOf(FreeForceIds(w)))

\* onMouseMove: the anchor of the drag joint follows the pointer
onMouseMove(w, l, mouse) ==
    IF ~l.isDragging \/ l.draggedBox = 0 THEN [w |-> w, l |-> l]
    ELSE [w |-> IF l.dragForce > 0 THEN [w EXCEPT !.force[l.dragForce].rA = mouse]
                ELSE w,
          l |-> l]

\* onMouseUp with the left button
onMouseUp(w, l) ==
    LET w1 == IF l.draggedBox > 0
              THEN [w EXCEPT !.rigidBox[l.draggedBox].isDragged = FALSE]
              ELSE w
        w2 == IF l.draggedBox # 0 /\ l.dragForce > 0 THEN removeForce(w1, l.dragForce)
              ELSE w1
    IN  [w |-> w2,
         l |-> [l EXCEPT !.isDragging = FALSE, !.draggedBox = 0,
                         !.dragForce = IF l.draggedBox # 0 THEN 0 ELSE @]]

\* a press of the left button on the centre of a body of the scene
MouseDown ==
    /\ nOps < MaxOps
    /\ FreeForceIds(World) # {}
    /\ \E b \in Range(solver.bodies) :
          LoopBecomes("mousedown", b,
                      onMouseDown(World, loop,
                                  <<rigidBox[b].position[1], rigidBox[b].position[2]>>))
    /\ nOps' = nOps + 1
    /\ UNCHANGED nSteps

\* the pointer moves to the origin of the world
MouseMove ==
    /\ nOps < MaxOps
    /\ LoopBecomes("mousemove", Vec2Zero, onMouseMove(World, loop, Vec2Zero))
    /\ nOps' = nOps + 1
    /\ UNCHANGED nSteps

\* the left button is released over the canvas
MouseUp ==
    /\ nOps < MaxOps
    /\ LoopBecomes("mouseup", 0, onMouseUp(World, loop))
    /\ nOps' = nOps + 1
    /\ UNCHANGED nSteps

\* the levels a box is dragged on, and the time between two frames there
DragLevels == {1, 8}
DragFrameDeltas == {70}

InitDrag == InitLoopOn(DragLevels)

DragFrame == FrameAfter(DragFrameDeltas)

NextDrag ==
    \/ DragFrame
    \/ MouseDown
    \/ MouseMove
    \/ MouseUp
    \/ RestartKey

SpecDrag == InitDrag /\ [][NextDrag]_vars

\* ------------------------------------------------------------------------
\* The construction of forces, call by call
\* ------------------------------------------------------------------------
\* the levels a scene is built on
BuildLevels == {2, 4, 7}

\* the arrays a Joint can be constructed with: up to three entries, each a
\* body of the scene or null
JointBodies == UNION {[1 .. n -> {0} \cup Range(solver.bodies)] : n \in 0 .. 3}

\* const joint = new Joint(bodiesArray, rA, rB); solver.addForce(joint): an
\* exception of the constructor leaves the statement before addForce is called
NewJointOf(w, bodiesArray) ==
    LET joint == SmallestOf(FreeForceIds(w))
        made == Joint_new([w EXCEPT !.trace.threw = FALSE], joint, bodiesArray,
                          Vec2Zero, Vec2Zero, <<Inf, Inf, Inf>>, Inf)
    IN  IF made.trace.threw THEN made ELSE addForce(made, joint)

InitBuild ==
    \E k \in BuildLevels :
        LET c == Collect(GameManager_LoadLevel(setDefaults(EmptyWorld), k))
        IN  /\ rigidBox = c.rigidBox
            /\ force = c.force
            /\ energy = c.energy
            /\ solver = c.solver
            /\ trace = c.trace
            /\ lastOp = Op("LoadLevel", k)
            /\ nSteps = 0
            /\ nOps = 0
            /\ loop = NoLoop
            /\ probe = NoProbe

NewJointWith ==
    /\ FreeForceIds(World) # {}
    /\ \E bodiesArray \in JointBodies :
          Does("newJoint", bodiesArray, NewJointOf(World, bodiesArray))

NextBuild ==
    \/ NewJointWith
    \/ RemoveForce
    \/ RemoveRigidBox

SpecBuild == InitBuild /\ [][NextBuild]_vars

\* ------------------------------------------------------------------------
\* Collision detection over a grid of poses
\* ------------------------------------------------------------------------
\* a level of one dynamic box of 2 by 4 above the floor, at the pose (x, y, a)
InitCollide ==
    \E x \in -6 .. 6, y \in 1 .. 3, a \in 0 .. 3 :
        LET c == Collect(LoadBodies(Collect(Clear(setDefaults(EmptyWorld))),
                     <<Floor, Body(<<2, 4>>, 1, 100, <<x, y, a>>, <<0, -60, 0>>)>>))
        IN  /\ rigidBox = c.rigidBox
            /\ force = c.force
            /\ energy = c.energy
            /\ solver = c.solver
            /\ trace = c.trace
            /\ lastOp = Op("LoadLevel", <<x, y, a>>)
            /\ nSteps = 0
            /\ nOps = 0
            /\ loop = NoLoop
            /\ probe = NoProbe

NextCollide == Step

SpecCollide == InitCollide /\ [][NextCollide]_vars

\* ------------------------------------------------------------------------
\* The projection of the Hessian's eigenvalues, on its own: every
\* combination of four eigenvalues, a mode and a trust-region ratio

\* eigenvalues below, at and above the floor
ProbeEigenvalues == {-5, 0, 3}

\* trust-region ratios (hundredths): 1, within the threshold, beyond it
ProbeRhos == {100, 101, 150}

InitProject ==
    /\ rigidBox = EmptyWorld.rigidBox
    /\ force = EmptyWorld.force
    /\ energy = EmptyWorld.energy
    /\ solver = setDefaults(EmptyWorld).solver
    /\ trace = NoTrace
    /\ lastOp = Op("new", 0)
    /\ nSteps = 0
    /\ nOps = 0
    /\ loop = NoLoop
    /\ \E eigenvalues \in [1 .. 4 -> ProbeEigenvalues] :
       \E projectionMode \in {CLAMP, ABSOLUTE, ADAPTIVE} :
       \E trustRegionRho \in ProbeRhos :
          probe = [NoProbe EXCEPT !.eigenvalues = eigenvalues,
                                  !.projectionMode = projectionMode,
                                  !.trustRegionRho = trustRegionRho]

\* StVKEnergy.project on the probe
ProjectStVK ==
    /\ probe.by = "none"
    /\ probe' = [probe EXCEPT
                    !.projected = project(probe.eigenvalues, probe.projectionMode,
                                          probe.trustRegionRho),
                    !.by = "StVKEnergy"]
    /\ lastOp' = Op("project", "StVKEnergy")
    /\ UNCHANGED <<rigidBox, force, energy, solver, trace, nSteps, nOps, loop>>

\* NeoHookeanEnergy.project on the probe
ProjectNeoHookean ==
    /\ probe.by = "none"
    /\ probe' = [probe EXCEPT
                    !.projected = NeoHookean_project(probe.eigenvalues,
                                                     probe.projectionMode,
                                                     probe.trustRegionRho),
                    !.by = "NeoHookeanEnergy"]
    /\ lastOp' = Op("project", "NeoHookeanEnergy")
    /\ UNCHANGED <<rigidBox, force, energy, solver, trace, nSteps, nOps, loop>>

NextProject == ProjectStVK \/ ProjectNeoHookean

SpecProject == InitProject /\ [][NextProject]_vars

\* ------------------------------------------------------------------------
\* Properties
\* ------------------------------------------------------------------------
StepDone == lastOp.name = "step" /\ trace.completed

\* the rows of force f that the solver iterates over
ActiveRows(f) == 1 .. getRows(force[f])

\* C1: a call of step made while paused or urgentStop is set changes no body,
\* no force, no energy, no list of the solver and no render queue
C1_StepIsNoOpWhenHalted ==
    [][(solver.paused \/ solver.urgentStop) /\ nSteps' = nSteps + 1
       => UNCHANGED <<rigidBox, force, energy, solver>>]_vars

\* a paused scene with bodies in it on which step has just been called
C1_Witness ==
    /\ lastOp.name = "step"
    /\ solver.paused
    /\ ~trace.ran
    /\ solver.bodies # <<>>

\* C2: once urgentStop is set, every operation other than a scene reset
\* (Solver.Clear, also reached through LoadLevel) leaves it set
C2_UrgentStopLatched ==
    [][solver.urgentStop /\ lastOp'.name \notin {"Clear", "LoadLevel"}
       => solver'.urgentStop]_vars

\* setDefaults has been called on a solver whose stop is latched
C2_Witness ==
    /\ solver.urgentStop
    /\ lastOp.name = "setDefaults"

\* C3 as stated: after a completed step every active row has its penalty in
\* [PENALTY_MIN, min(PENALTY_MAX, stiffness)]
C3_PenaltyInStatedRange ==
    StepDone =>
        \A f \in Range(solver.forces) : \A j \in ActiveRows(f) :
            /\ Ge(force[f].penalty[j], PENALTY_MIN)
            /\ Le(force[f].penalty[j], Min(PENALTY_MAX, force[f].stiffness[j]))

\* C3 amended: after a completed step every active row has its penalty in
\* [min(PENALTY_MIN, stiffness), min(PENALTY_MAX, stiffness)]; a row whose
\* stiffness is below PENALTY_MIN has its penalty equal to its stiffness
C3_PenaltyInRange ==
    StepDone =>
        \A f \in Range(solver.forces) : \A j \in ActiveRows(f) :
            /\ Ge(force[f].penalty[j], Min(PENALTY_MIN, force[f].stiffness[j]))
            /\ Le(force[f].penalty[j], Min(PENALTY_MAX, force[f].stiffness[j]))

\* a completed step has left a row of zero stiffness next to a row whose
\* penalty was ramped above PENALTY_MIN
C3_Witness ==
    /\ StepDone
    /\ \E f \in Range(solver.forces) : \E j, k \in ActiveRows(f) :
          /\ force[f].stiffness[j] = 0
          /\ force[f].penalty[j] = 0
          /\ Gt(force[f].penalty[k], PENALTY_MIN)

\* C4: after a completed step every active row has its lambda inside the
\* bounds [fmin, fmax] the row then holds
C4_LambdaWithinBounds ==
    StepDone =>
        \A f \in Range(solver.forces) : \A j \in ActiveRows(f) :
            /\ Ge(force[f].lambda[j], force[f].fmin[j])
            /\ Le(force[f].lambda[j], force[f].fmax[j])

\* C5: a force is in the force list of a body if and only if the body is in
\* the body list of the force
C5_LinksAreMutual ==
    \A b \in BodyIds : \A f \in ForceIds :
        (f \in Range(rigidBox[b].forces)) <=> (b \in Range(force[f].bodies))

\* a body has been removed after a step in which it was in contact, and the
\* other body of that contact is still in the solver
C5_Witness ==
    /\ lastOp.name = "removeRigidBox"
    /\ trace.completed
    /\ trace.primalSolves > 0
    /\ solver.bodies # <<>>
    /\ solver.contactsToRender # <<>>

\* C6: after removeRigidBox(b), b is not in the body list and no force or
\* energy of the solver's lists references b
C6_RemovedBodyUnreferenced ==
    lastOp.name = "removeRigidBox" =>
        /\ lastOp.arg \notin Range(solver.bodies)
        /\ \A f \in Range(solver.forces) : lastOp.arg \notin Range(force[f].bodies)
        /\ \A e \in Range(solver.energies) : lastOp.arg \notin Range(energy[e].bodies)

\* C7: a force on which disable() has been called adds zero to the right-hand
\* side and to the left-hand-side matrix in every primal solve that visits it
C7_DisabledContributesNothing == ~trace.disabledContribution

\* a joint was disabled during a step and later primal solves of that step
\* went through its rows
C7_Witness ==
    /\ lastOp.name = "step"
    /\ trace.disabled # {}
    /\ trace.disabledRowsVisited > 0

\* C8: at the end of a completed step every contact of every manifold has
\* |lambda_t| <= mu * |lambda_n|
C8_FrictionCone ==
    StepDone =>
        \A f \in Range(solver.forces) :
            force[f].kind = "Manifold" =>
                \A i \in 1 .. Len(force[f].contacts) :
                    Le(Abs(force[f].lambda[2 * i]),
                       Hundredths(Abs(force[f].lambda[2 * i - 1]), force[f].friction))

C10_NaNAborts ==
    (lastOp.name = "step" /\ trace.nanDetected) =>
        /\ solver.urgentStop
        /\ trace.workAfterNaN = 0
        /\ ~trace.completed

\* a step has met a NaN gradient after its first primal solve had begun
C10_Witness ==
    /\ lastOp.name = "step"
    /\ trace.nanDetected
    /\ trace.primalSolves > 0

\* C11: at all times every energy of the solver's energy list has its
\* effective stiffness in [ENERGY_STIFFNESS_MIN, targetStiffness]
C11_EffectiveStiffnessInRange ==
    \A e \in Range(solver.energies) :
        /\ Ge(energy[e].effectiveStiffness, ENERGY_STIFFNESS_MIN)
        /\ Le(energy[e].effectiveStiffness, energy[e].targetStiffness)

C13_DisabledForcePersists ==
    [][\A f \in Range(solver.forces) :
           f \in trace.disabled /\ lastOp'.name = "step"
           => f \in Range(solver'.forces)]_vars

\* C14: a call of step leaves the position (x, y, theta) of every static
\* body of the solver as it was, whatever the velocity of the body
C14_StaticBodyKeepsPose ==
    [][lastOp'.name = "step"
       => \A b \in Range(solver.bodies) :
              rigidBox[b].staticBody => rigidBox'[b].position = rigidBox[b].position]_vars

\* C16: a call step(dt) with |dt - solver.dt| > 0.01 that is not halted logs
\* the warning and integrates with the dt of the call: a static body, which
\* no constraint moves, advances by its velocity times that dt
C16_StepUsesSuppliedDt ==
    [][(/\ lastOp'.name = "step"
        /\ trace'.ran
        /\ TimestepChanged(lastOp'.arg, solver.invDt)
        /\ solver.gravity[2] # 0)
       => /\ "Physics timestep changed" \in trace'.warnings
          /\ \A b \in Range(solver.bodies) :
                 rigidBox[b].staticBody
                 => rigidBox'[b].position =
                        vec3add(rigidBox[b].position,
                                <<Div(rigidBox[b].velocity[1], lastOp'.arg),
                                  Div(rigidBox[b].velocity[2], lastOp'.arg),
                                  Div(rigidBox[b].velocity[3], lastOp'.arg)>>)]_vars

\* C15: a frame calls solver.step at most five times, and after every frame
\* the time left in the accumulator is less than one fixed tick
C15_FrameBounded ==
    /\ loop.steps <= MAX_PHYSICS_STEPS
    /\ loop.accumulator < FixedStep

\* a frame that ran five steps and dropped more than a tick of excess time
C15_Witness ==
    /\ lastOp.name = "frame"
    /\ loop.steps = MAX_PHYSICS_STEPS
    /\ loop.excess >= FixedStep
    /\ loop.accumulator = 0

\* C17: the construction of a Joint with fewer than one or more than two
\* bodies completes without an exception and leaves no body linked to the
\* destroyed joint
C17_InvalidJointDestroyedQuietly ==
    (lastOp.name = "newJoint" /\ Len(NonNull(lastOp.arg)) \notin {1, 2})
    => /\ ~trace.threw
       /\ \A b \in Range(solver.bodies) : \A f \in Range(rigidBox[b].forces) :
              force[f].bodies # <<>>

\* C18: any two distinct contacts that a manifold of the solver holds have
\* different feature IDs
C18_FeatureIDsDistinct ==
    \A f \in Range(solver.forces) :
        force[f].kind = "Manifold"
        => \A i, j \in 1 .. Len(force[f].contacts) :
               i # j => force[f].contacts[i].details.ID # force[f].contacts[j].details.ID

\* a step has left a manifold of two contacts, one of them cut by a side
\* plane of the reference face
C18_Witness ==
    /\ lastOp.name = "step"
    /\ \E f \in Range(solver.forces) :
          /\ force[f].kind = "Manifold"
          /\ Len(force[f].contacts) = 2
          /\ \E i \in 1 .. 2 :
                \/ force[f].contacts[i].details.inEdge1 # NO_EDGE
                \/ force[f].contacts[i].details.outEdge1 # NO_EDGE

\* C19: with post-stabilisation on, the last iteration of a completed step
\* evaluates the constraints with currentAlpha = 0
C19_StabilisationAlphaZero ==
    (StepDone /\ solver.postStabilization /\ trace.evaluations > 0)
    => trace.currentAlpha = 0

\* C20: a completed step runs the primal block N times, N + 1 times with
\* post-stabilisation, and the dual block N times; the stabilisation
\* iteration leaves every lambda, penalty and effective stiffness as it
\* found them
C20_DualSkippedOnStabilisation ==
    StepDone =>
        /\ trace.primalBlocks =
               solver.iterations + (IF solver.postStabilization THEN 1 ELSE 0)
        /\ trace.dualUpdates = solver.iterations
        /\ solver.postStabilization => trace.duals = DualVariables(World)

\* a completed step with post-stabilisation whose dual blocks ran and whose
\* stabilisation iteration evaluated the constraints of a force
C20_Witness ==
    /\ StepDone
    /\ solver.postStabilization
    /\ solver.iterations > 0
    /\ trace.dualUpdates = solver.iterations
    /\ trace.primalBlocks = solver.iterations + 1
    /\ trace.evaluations > 0
    /\ \E f \in Range(solver.forces) : \E j \in ActiveRows(f) :
          Gt(force[f].penalty[j], PENALTY_MIN)

\* the velocity of a body as the warm start of a step leaves it: the angular
\* part clamped to [-50, 50]
ClampedVelocity(v) ==
    <<v[1], v[2],
      IF Lt(v[3], -MaxRotationVelocity) THEN -MaxRotationVelocity
      ELSE IF Gt(v[3], MaxRotationVelocity) THEN MaxRotationVelocity ELSE v[3]>>

\* C21: a completed step extracts the velocities once: a body of mass > 0
\* ends with prevVelocity equal to the velocity it entered the iterations
\* with and, when no stabilisation iteration follows, with velocity
\* (position - lastPosition) / dt; a body of mass 0 keeps velocity and
\* prevVelocity
C21_VelocityExtractedOnce ==
    [][(lastOp'.name = "step" /\ trace'.completed)
       => /\ trace'.velocityExtractions = 1
          /\ \A b \in Range(solver.bodies) :
                /\ Gt(rigidBox[b].mass, 0) /\ ~rigidBox[b].isDragged
                   => /\ rigidBox'[b].prevVelocity = ClampedVelocity(rigidBox[b].velocity)
                      /\ ~solver.postStabilization
                         => rigidBox'[b].velocity =
                                vec3scale(vec3sub(rigidBox'[b].position,
                                                  rigidBox'[b].lastPosition),
                                          solver.invDt)
                /\ rigidBox[b].mass = 0
                   => /\ rigidBox'[b].velocity = rigidBox[b].velocity
                      /\ rigidBox'[b].prevVelocity = rigidBox[b].prevVelocity]_vars

\* a completed step of several iterations has given a moving body a new
\* velocity next to a static body
C21_Witness ==
    /\ StepDone
    /\ solver.iterations > 1
    /\ trace.velocityExtractions = 1
    /\ \E b \in Range(solver.bodies) :
          Gt(rigidBox[b].mass, 0) /\ rigidBox[b].velocity # rigidBox[b].prevVelocity
    /\ \E b \in Range(solver.bodies) : rigidBox[b].mass = 0

\* C22: a force whose initialize() returned false in a step is, after that
\* step, in neither the solver's list nor a body's list, is destroyed, and
\* was evaluated by no primal and no dual update of the step
C22_UnusedForceRemoved ==
    (lastOp.name = "step" /\ trace.ran)
    => \A f \in trace.unused :
          /\ f \notin Range(solver.forces)
          /\ \A b \in DOMAIN rigidBox : f \notin Range(rigidBox[b].forces)
          /\ force[f].bodies = <<>>
          /\ f \notin trace.touched

\* a completed step has dropped a joint whose stiffness rows are all zero
\* and has solved with another force
C22_Witness ==
    /\ StepDone
    /\ "Joint" \in trace.unusedKinds
    /\ trace.touched # {}

\* a completed step has dropped a manifold left with no contacts
C22_WitnessManifold ==
    /\ StepDone
    /\ "Manifold" \in trace.unusedKinds

\* C23: every adaptive warm-start weight a step computes is a number of
\* [0, 1] (in hundredths, of 0 .. 100), whatever gravity is stored
C23_AccelWeightInRange ==
    \A a \in trace.accelWeights : a # NaN /\ Le(0, a) /\ Le(a, 100)

\* the old contacts of a merge that carry the feature ID of new contact i
SameFeature(m, i) == {j \in 1 .. Len(m.oldIDs) : m.oldIDs[j] = m.IDs[i]}

\* C24: after Manifold.initialize a new contact whose feature ID is that of
\* an old contact has the normal and tangent penalty and lambda of the old
\* contact's rows and its stick flag; a new contact without a match has
\* penalty 0, lambda 0 and stick false
C24_ContactsWarmStartedByFeature ==
    \A m \in trace.merges : \A i \in 1 .. Len(m.IDs) :
        IF SameFeature(m, i) = {}
        THEN /\ m.penalty[2 * i - 1] = 0 /\ m.penalty[2 * i] = 0
             /\ m.lambda[2 * i - 1] = 0 /\ m.lambda[2 * i] = 0
             /\ ~m.stick[i]
        ELSE LET j == SmallestOf(SameFeature(m, i))
             IN  /\ m.penalty[2 * i - 1] = m.oldPenalty[2 * j - 1]
                 /\ m.penalty[2 * i] = m.oldPenalty[2 * j]
                 /\ m.lambda[2 * i - 1] = m.oldLambda[2 * j - 1]
                 /\ m.lambda[2 * i] = m.oldLambda[2 * j]
                 /\ m.stick[i] = m.oldStick[j]

\* a manifold has been initialised with a contact that took over the
\* non-zero penalty of the old contact of its feature
C24_Witness ==
    \E m \in trace.merges : \E i \in 1 .. Len(m.IDs) :
        /\ SameFeature(m, i) # {}
        /\ m.penalty[2 * i - 1] # 0
        /\ m.lambda[2 * i - 1] # 0

\* a manifold that had contacts has been initialised with a contact of a
\* feature none of them had
C24_WitnessFresh ==
    \E m \in trace.merges : \E i \in 1 .. Len(m.IDs) :
        /\ Len(m.oldIDs) > 0
        /\ SameFeature(m, i) = {}

\* a contact has taken over the rows of an old contact of another index
C24_WitnessMoved ==
    \E m \in trace.merges : \E i \in 1 .. Len(m.IDs) :
        /\ SameFeature(m, i) # {}
        /\ i \notin SameFeature(m, i)

\* the ABSOLUTE and the CLAMP projection of four eigenvalues
AbsoluteProjection(eigenvalues) == [i \in 1 .. 4 |-> AbsEigen(eigenvalues[i])]
ClampProjection(eigenvalues) == [i \in 1 .. 4 |-> ClampEigen(eigenvalues[i])]

\* C25: a projection in ADAPTIVE mode is the ABSOLUTE projection when
\* |rho - 1| > 0.01 and the CLAMP projection otherwise, and in every mode
\* each projected eigenvalue is at least the floor
C25_ProjectionAtLeastFloor ==
    probe.by # "none"
    => /\ \A i \in 1 .. 4 : Ge(probe.projected[i], EigenFloor)
       /\ probe.projectionMode = ADAPTIVE
          => probe.projected =
                IF Gt(Abs(Sub(probe.trustRegionRho, 100)), 1)
                THEN AbsoluteProjection(probe.eigenvalues)
                ELSE ClampProjection(probe.eigenvalues)

\* the same for the projection of StVKEnergy alone
C25_StVKProjectionAtLeastFloor ==
    probe.by = "StVKEnergy"
    => /\ \A i \in 1 .. 4 : Ge(probe.projected[i], EigenFloor)
       /\ probe.projectionMode = ADAPTIVE
          => probe.projected =
                IF Gt(Abs(Sub(probe.trustRegionRho, 100)), 1)
                THEN AbsoluteProjection(probe.eigenvalues)
                ELSE ClampProjection(probe.eigenvalues)

\* the manifolds of the force list, by their place in it
ManifoldPlaces == {i \in 1 .. Len(solver.forces) : force[solver.forces[i]].kind = "Manifold"}

\* the unordered pair of bodies of the force at place i of the force list
PairAt(i) == Range(force[solver.forces[i]].bodies)

\* C26: the force list holds at most one Manifold for an unordered pair of
\* bodies, and no Manifold for a pair that another force of the list links
C26_ManifoldsUnique ==
    /\ \A i, k \in ManifoldPlaces : PairAt(i) = PairAt(k) => i = k
    /\ \A i \in ManifoldPlaces : \A k \in 1 .. Len(solver.forces) :
           (k \notin ManifoldPlaces /\ PairAt(i) # {}) => ~(PairAt(i) \subseteq PairAt(k))

\* the first half of C26 alone
C26_OneManifoldPerPair ==
    \A i, k \in ManifoldPlaces : PairAt(i) = PairAt(k) => i = k

\* a position outside the world limits
OutsideWorld(pos) ==
    \/ Lt(pos[1], -xWorldLimit) \/ Gt(pos[1], xWorldLimit)
    \/ Lt(pos[2], -yWorldLimit) \/ Gt(pos[2], yWorldLimit)

\* C27: after a frame no body of the solver's list lies outside the world
\* limits: the culling pass of the frame has removed every such body
C27_FrameCullsEveryBodyOutside ==
    lastOp.name = "frame"
    => \A b \in Range(solver.bodies) : ~OutsideWorld(rigidBox[b].position)

\* C28: a call of step that aborts by setting urgentStop leaves the position
\* and the velocity of every body, the rows of every force and the rows of
\* every energy as they were before the call
C28_AbortedStepChangesNothing ==
    [][(lastOp'.name = "step" /\ trace'.aborted /\ solver'.urgentStop)
       => /\ \A b \in Range(solver.bodies) :
                /\ rigidBox'[b].position = rigidBox[b].position
                /\ rigidBox'[b].velocity = rigidBox[b].velocity
          /\ \A f \in Range(solver.forces) :
                /\ force'[f].penalty = force[f].penalty
                /\ force'[f].lambda = force[f].lambda
          /\ \A e \in Range(solver.energies) :
                energy'[e].effectiveStiffness = energy[e].effectiveStiffness]_vars

\* the places of the force list that hold a drag joint: a Joint of one body
DragJoints ==
    {i \in 1 .. Len(solver.forces) :
        /\ force[solver.forces[i]].kind = "Joint"
        /\ Len(force[solver.forces[i]].bodies) = 1}

\* C29: the force list holds at most one drag joint, and while no drag is
\* under way (the pointer has been released) it holds none and no body of
\* the solver is flagged isDragged
C29_AtMostOneDragJoint ==
    /\ Cardinality(DragJoints) <= 1
    /\ ~loop.isDragging
       => /\ DragJoints = {}
          /\ \A b \in Range(solver.bodies) : ~rigidBox[b].isDragged

\* C30: the running flag is true exactly when one animation-frame callback
\* is pending, and after a restart (key R, or a frame that found the restart
\* flag) and after the page is shown the loop runs with one pending callback
C30_RunningIffOneCallbackPending ==
    /\ loop.running <=> Cardinality(loop.pending) = 1
    /\ lastOp.name \in {"restartGame", "startMainLoop", "frame"}
       => loop.running /\ Cardinality(loop.pending) = 1

\* the page was hidden after some frames and is shown again: a new loop
\* runs, with one callback pending
C30_Witness ==
    /\ lastOp.name = "startMainLoop"
    /\ loop.nFrames > 0
    /\ loop.lastFrameTime = 0
    /\ loop.running
    /\ Cardinality(loop.pending) = 1

\* a frame found the restart flag and has loaded the level again
C30_WitnessRestart ==
    /\ lastOp.name = "frame"
    /\ loop.nFrames > 1
    /\ loop.lastFrameTime = 0
    /\ loop.running
    /\ Cardinality(loop.pending) = 1
====
